---- MODULE Spec2Model ----
(***************************************************************************)
(* Activity Tracking Engine of the TimeOrganizer browser extension:        *)
(* the tab state machine with its debounce timers, the five-minute window  *)
(* aggregator driven by the 1 s ticker, the token lifecycle manager and    *)
(* the heartbeat pipeline.                                                 *)
(*                                                                         *)
(* Scheduling model.  The extension runs on one JavaScript event loop.     *)
(* A handler runs without interruption up to an await of a host call       *)
(* (browser.windows.get, browser.tabs.get, fetch, storage); there it is    *)
(* suspended and any other handler, timer or ticker callback may run.      *)
(* An await of one of the tracker's own async methods that perform no host *)
(* call (endActiveTracking, endBackgroundTracking, startActiveTracking,    *)
(* maybeStartBackgroundTracking) only yields to the microtask queue; host  *)
(* events, timers and host-call completions are tasks of their own, so     *)
(* nothing else runs there and the section is one step of the model.       *)
(* Time is the wall clock Date.now() in milliseconds.                      *)
(*                                                                         *)
(* Specifications.  Spec and SpecShort are the tab state machine and the   *)
(* ticker from the start of the worker, over behaviours of MaxEvents and   *)
(* of MaxEventsShort host events.  SpecHb is the heartbeat pipeline and    *)
(* the token manager over a tracker that already has a confirmed active    *)
(* tab: alarms, deliveries, refreshes and logouts interleave with the      *)
(* ticker at every fetch and storage await; a storage call completes       *)
(* within the clock step it was made in, and an alarm fires after the      *)
(* cycle before it has returned.  The index of the background worker calls *)
(* sendHeartbeat(window, isIdle); the sendHeartbeat of the sources takes   *)
(* (events, isIdle), so the pipeline follows its control flow with the     *)
(* window as the one event of the cycle (HeartbeatPayload).                *)
(***************************************************************************)
EXTENDS Integers, Sequences, FiniteSets, TLC

\* ------------------------------------------------------------------------
\* Program constants
\* ------------------------------------------------------------------------
DEBOUNCE_THRESHOLD_MS == 5000

WINDOW_DURATION_MS == 300000

TICK_INTERVAL_MS == 1000

WINDOW_ID_NONE == -1

\* ------------------------------------------------------------------------
\* Bounds of the model
\* ------------------------------------------------------------------------
\* number of clock advances in one behaviour
MaxClockSteps == 10

\* number of host events (user actions and signals) in one behaviour
MaxEvents == 2

\* number of host events in one behaviour of the short specification
MaxEventsShort == 1

\* number of handlers that may be suspended at a host call at one time
MaxInflight == 1

\* number of ticker callbacks in a row that the event loop may skip
MaxMissedTicks == 1

\* the amounts by which the wall clock advances between two steps
ClockDeltas == {1000}

\* wall-clock times at which a behaviour starts: 6 s before a five-minute
\* boundary, so that a confirmed tab is ticked on both sides of the boundary
StartTimes == {294000}

\* the tabs the host can show
Tabs == {1, 2}

\* the window id under which the extension's own popup is reported
PopupWindow == 2

\* ------------------------------------------------------------------------
\* URLs.  A URL is a record of its scheme, its host (a sequence of labels,
\* empty when the string does not parse as a URL) and its path.
\* ------------------------------------------------------------------------
UrlA1 == [scheme |-> "https", host |-> <<"www", "a", "com">>, path |-> "/1"]

UrlA2 == [scheme |-> "https", host |-> <<"a", "com">>, path |-> "/2"]

UrlB1 == [scheme |-> "https", host |-> <<"b", "com">>, path |-> "/1"]

UrlInternal == [scheme |-> "chrome", host |-> <<"newtab">>, path |-> "/"]

Urls == {UrlA1, UrlA2, UrlB1, UrlInternal}

\* view-source:https://a.com/1, which new URL() parses with an empty hostname
UrlViewSource == [scheme |-> "view-source", host |-> <<>>, path |-> "/1"]

\* new URL(url).hostname with a leading "www." removed; '' on a parse error
extractDomain(url) ==
  IF url.host = <<>> THEN <<>>
  ELSE IF Head(url.host) = "www" THEN Tail(url.host)
  ELSE url.host

\* suffix of a label sequence
EndsWith(d, e) ==
  /\ Len(e) < Len(d)
  /\ SubSeq(d, Len(d) - Len(e) + 1, Len(d)) = e

\* domain === blocked || domain.endsWith('.' + blocked), for some entry
isDomainBlocked(domain, blocklist) ==
  \E blocked \in blocklist : domain = blocked \/ EndsWith(domain, blocked)

NonTrackableSchemes ==
  {"chrome", "chrome-extension", "moz-extension", "edge", "about", "file",
   "data", "javascript", "blob"}

isTrackableUrl(url) == url.scheme \notin NonTrackableSchemes

Domains == {extractDomain(u) : u \in Urls}

\* ------------------------------------------------------------------------
\* State
\* ------------------------------------------------------------------------
VARIABLES
  now,               \* Date.now()
  clockSteps,        \* clock advances so far
  events,            \* host events still to come in this behaviour
  \* host (browser) state
  hostTabs,          \* open tabs
  hostUrl,           \* URL shown by each tab
  hostActive,        \* the active tab of the normal window
  hostFocus,         \* "normal", "popup" (extension popup) or "none"
  hostAudible,       \* tabs the browser reports as audible
  hostIdle,          \* browser.idle state is not 'active'
  \* ActivityTracker fields
  activeTab,         \* <<>> (null) or <<TabState>>
  backgroundTabs,    \* Map tabId -> TabState
  visibleTabs,
  audibleTabs,
  videoPlayingTabs,
  isIdle,
  isPaused,
  settings,          \* UserSettings
  pendingStarts,     \* Map tabId -> PendingTabState
  timers,            \* live setTimeout handles of the debounce gate
  activityBuffer,    \* ActivityBuffer
  lastTickAt,
  inflight,          \* handlers suspended at a host call
  \* history of the visits and confirmations
  visitStart,        \* when the focused tab gained focus
  shortLeftAt,       \* per tab: when a visit below the threshold last ended
  lastVisit,         \* the latest visit: its tab, start, end (-1 while it
                     \* lasts) and the active seconds attributed to the tab
  resumedAt,         \* <<>>, or <<when tracking resumed from pause or idle>>
                     \* while no tick has run since
  \* registrations of the background worker
  initRuns,          \* the runs of initialize() under way: run -> position
  listeners,         \* listener sets added by setupEventListeners
  authCallbacks,     \* length of AuthManager.onAuthChangeCallbacks
  tickIntervals,     \* live setInterval handles of startTicker
  \* AuthManager fields and the persisted auth record
  tokens,            \* <<>> (null) or <<AuthTokens>>
  userEmail,         \* <<>> (null) or <<the signed-in user>>
  refreshTimer,      \* <<>> or <<due time of the live refresh setTimeout>>
  storedAuth,        \* storage.local 'auth': <<>> or <<AuthTokens>>
  issued,            \* access tokens the auth server has issued
  authNotices,       \* calls of notifyAuthChange so far
  \* heartbeat pipeline
  procs,             \* heartbeat cycles 1.. and the timer's refresh call 0
  cycleCount,        \* heartbeat alarms so far
  queuedEvents,      \* storage.local 'queuedEvents'
  queuedBy,          \* per queued event: the heartbeat cycle that queued it
  dailyStats,        \* storage.local 'dailyStats', per domain
  accepted,          \* per windowStart: the seconds the collector holds
  ledger,            \* per windowStart: the seconds the ticks attributed
  outage             \* the failed cycles in a row before the last alarm: how
                     \* many, and the ledger when the first of them began

hostVars == <<hostTabs, hostUrl, hostActive, hostFocus, hostAudible, hostIdle>>

trackerVars ==
  <<activeTab, backgroundTabs, visibleTabs, audibleTabs, videoPlayingTabs,
    isIdle, isPaused, settings, pendingStarts, timers, activityBuffer,
    lastTickAt>>

historyVars == <<visitStart, shortLeftAt, lastVisit, resumedAt>>

workerVars == <<initRuns, listeners, authCallbacks, tickIntervals>>

authVars ==
  <<tokens, userEmail, refreshTimer, storedAuth, issued, authNotices>>

pipelineVars ==
  <<procs, cycleCount, queuedEvents, queuedBy, dailyStats, accepted, ledger,
    outage>>

hbVars == <<authVars, pipelineVars>>

vars ==
  <<now, clockSteps, events, hostVars, trackerVars, inflight, historyVars, workerVars,
    hbVars>>

\* ------------------------------------------------------------------------
\* The tracker's fields as one value, so that a handler's calls compose
\* ------------------------------------------------------------------------
Tracker ==
  [activeTab |-> activeTab, backgroundTabs |-> backgroundTabs,
   visibleTabs |-> visibleTabs, audibleTabs |-> audibleTabs,
   videoPlayingTabs |-> videoPlayingTabs, isIdle |-> isIdle,
   isPaused |-> isPaused, settings |-> settings,
   pendingStarts |-> pendingStarts, timers |-> timers,
   activityBuffer |-> activityBuffer, lastTickAt |-> lastTickAt]

Commit(S) ==
  /\ activeTab' = S.activeTab
  /\ backgroundTabs' = S.backgroundTabs
  /\ visibleTabs' = S.visibleTabs
  /\ audibleTabs' = S.audibleTabs
  /\ videoPlayingTabs' = S.videoPlayingTabs
  /\ isIdle' = S.isIdle
  /\ isPaused' = S.isPaused
  /\ settings' = S.settings
  /\ pendingStarts' = S.pendingStarts
  /\ timers' = S.timers
  /\ activityBuffer' = S.activityBuffer
  /\ lastTickAt' = S.lastTickAt

MapDelete(m, k) == [x \in (DOMAIN m) \ {k} |-> m[x]]

MapSet(m, k, v) == [x \in (DOMAIN m) \cup {k} |-> IF x = k THEN v ELSE m[x]]

EmptyMap == [x \in {} |-> 0]

\* ------------------------------------------------------------------------
\* Debounce gate: setTimeout / clearTimeout
\* ------------------------------------------------------------------------
\* the handle setTimeout returns: the smallest one not in use
NewTimeoutId(S) ==
  CHOOSE i \in 1..(Cardinality(S.timers) + 1) :
    /\ \A tm \in S.timers : tm.id # i
    /\ \A j \in 1..(i - 1) : \E tm \in S.timers : tm.id = j

clearTimeout(S, id) ==
  [S EXCEPT !.timers = {tm \in @ : tm.id # id}]

\* clearTimeout(pending.timeoutId); this.pendingStarts.delete(tabId)
CancelPending(S, tabId) ==
  [clearTimeout(S, S.pendingStarts[tabId].timeoutId)
     EXCEPT !.pendingStarts = MapDelete(@, tabId)]

\* setTimeout(..., DEBOUNCE_THRESHOLD_MS) followed by pendingStarts.set
setPendingTimeout(S, tabId, url, domain, isBackground) ==
  LET id == NewTimeoutId(S) IN
  [S EXCEPT
     !.timers = @ \cup {[id |-> id, tabId |-> tabId, url |-> url,
                         domain |-> domain, isBackground |-> isBackground,
                         due |-> now + DEBOUNCE_THRESHOLD_MS]},
     !.pendingStarts = MapSet(@, tabId,
                         [tabId |-> tabId, domain |-> domain, url |-> url,
                          isBackground |-> isBackground,
                          scheduledTime |-> now, timeoutId |-> id])]

\* ------------------------------------------------------------------------
\* Tab state machine: the tracker's own methods
\* ------------------------------------------------------------------------
\* endActiveTracking cancelling the pending start and keeping the record
endActiveTrackingKeepRecord(S) ==
  IF /\ S.activeTab # <<>>
     /\ S.activeTab[1].tabId \in DOMAIN S.pendingStarts
     /\ ~S.pendingStarts[S.activeTab[1].tabId].isBackground
  THEN CancelPending(S, S.activeTab[1].tabId)
  ELSE S

endActiveTracking(S) ==
  LET S1 == IF /\ S.activeTab # <<>>
               /\ S.activeTab[1].tabId \in DOMAIN S.pendingStarts
               /\ ~S.pendingStarts[S.activeTab[1].tabId].isBackground
            THEN CancelPending(S, S.activeTab[1].tabId)
            ELSE S
  IN [S1 EXCEPT !.activeTab = <<>>]

\* endBackgroundTracking without the cancellation of the pending start
endBackgroundTrackingKeepPending(S, tabId) ==
  [S EXCEPT !.backgroundTabs = MapDelete(@, tabId)]


endBackgroundTracking(S, tabId) ==
  LET S1 == IF /\ tabId \in DOMAIN S.pendingStarts
               /\ S.pendingStarts[tabId].isBackground
            THEN CancelPending(S, tabId)
            ELSE S
  IN [S1 EXCEPT !.backgroundTabs = MapDelete(@, tabId)]

startActiveTracking(S, tabId, url, domain) ==
  LET S1 == IF tabId \in DOMAIN S.pendingStarts
            THEN CancelPending(S, tabId) ELSE S
      S2 == endActiveTracking(S1)
  IN setPendingTimeout(S2, tabId, url, domain, FALSE)

confirmActiveStart(S, tabId, url, domain) ==
  [S EXCEPT !.activeTab =
     <<[tabId |-> tabId, domain |-> domain, url |-> url,
        isBackground |-> FALSE, startTime |-> now, isTracking |-> TRUE]>>]

\* maybeStartBackgroundTracking without the cancellation of the start that
\* is pending for the tab
maybeStartBackgroundTrackingNoCancel(S, tabId, url) ==
  LET domain == extractDomain(url) IN
  IF S.isPaused \/ S.isIdle THEN S
  ELSE IF tabId \in DOMAIN S.backgroundTabs THEN S
  ELSE IF S.activeTab # <<>> /\ S.activeTab[1].tabId = tabId THEN S
  ELSE IF ~isTrackableUrl(url) THEN S
  ELSE IF isDomainBlocked(domain, S.settings.blocklist) THEN S
  ELSE IF /\ tabId \notin S.visibleTabs
          /\ tabId \notin S.audibleTabs
          /\ tabId \notin S.videoPlayingTabs THEN S
  ELSE setPendingTimeout(S, tabId, url, domain, TRUE)

\* maybeStartBackgroundTracking without the refusal of the active tab
maybeStartBackgroundTrackingOfActive(S, tabId, url) ==
  LET domain == extractDomain(url) IN
  IF S.isPaused \/ S.isIdle THEN S
  ELSE IF tabId \in DOMAIN S.backgroundTabs THEN S
  ELSE IF ~isTrackableUrl(url) THEN S
  ELSE IF isDomainBlocked(domain, S.settings.blocklist) THEN S
  ELSE IF /\ tabId \notin S.visibleTabs
          /\ tabId \notin S.audibleTabs
          /\ tabId \notin S.videoPlayingTabs THEN S
  ELSE LET S1 == IF tabId \in DOMAIN S.pendingStarts
                 THEN CancelPending(S, tabId) ELSE S
       IN setPendingTimeout(S1, tabId, url, domain, TRUE)

\* maybeStartBackgroundTracking without the test of isIdle
maybeStartBackgroundTrackingWhileIdle(S, tabId, url) ==
  LET domain == extractDomain(url) IN
  IF S.isPaused THEN S
  ELSE IF tabId \in DOMAIN S.backgroundTabs THEN S
  ELSE IF S.activeTab # <<>> /\ S.activeTab[1].tabId = tabId THEN S
  ELSE IF ~isTrackableUrl(url) THEN S
  ELSE IF isDomainBlocked(domain, S.settings.blocklist) THEN S
  ELSE IF /\ tabId \notin S.visibleTabs
          /\ tabId \notin S.audibleTabs
          /\ tabId \notin S.videoPlayingTabs THEN S
  ELSE LET S1 == IF tabId \in DOMAIN S.pendingStarts
                 THEN CancelPending(S, tabId) ELSE S
       IN setPendingTimeout(S1, tabId, url, domain, TRUE)

\* maybeStartBackgroundTracking
maybeStartBackgroundTracking(S, tabId, url) ==
  LET domain == extractDomain(url) IN
  IF S.isPaused \/ S.isIdle THEN S
  ELSE IF tabId \in DOMAIN S.backgroundTabs THEN S
  ELSE IF S.activeTab # <<>> /\ S.activeTab[1].tabId = tabId THEN S
  ELSE IF ~isTrackableUrl(url) THEN S
  ELSE IF isDomainBlocked(domain, S.settings.blocklist) THEN S
  ELSE IF /\ tabId \notin S.visibleTabs
          /\ tabId \notin S.audibleTabs
          /\ tabId \notin S.videoPlayingTabs THEN S
  ELSE LET S1 == IF tabId \in DOMAIN S.pendingStarts
                 THEN CancelPending(S, tabId) ELSE S
       IN setPendingTimeout(S1, tabId, url, domain, TRUE)

confirmBackgroundStart(S, tabId, url, domain) ==
  [S EXCEPT !.backgroundTabs = MapSet(@, tabId,
     [tabId |-> tabId, domain |-> domain, url |-> url,
      isBackground |-> TRUE, startTime |-> now, isTracking |-> TRUE])]

\* for (const tabId of this.backgroundTabs.keys()) endBackgroundTracking(tabId)
RECURSIVE endAllBackgroundTracking(_, _)
endAllBackgroundTracking(S, ids) ==
  IF ids = {} THEN S
  ELSE LET tabId == CHOOSE x \in ids : \A y \in ids : x <= y
       IN endAllBackgroundTracking(endBackgroundTracking(S, tabId),
                                   ids \ {tabId})

\* the synchronous tail of handleTabActivated, after both host calls
\* returned: window.focused was true and tab is the result of tabs.get
handleTabActivatedTail(S, tabId, url) ==
  IF ~isTrackableUrl(url) THEN endActiveTracking(S)
  ELSE IF isDomainBlocked(extractDomain(url), S.settings.blocklist)
       THEN endActiveTracking(S)
  ELSE startActiveTracking(endBackgroundTracking(S, tabId), tabId, url,
                           extractDomain(url))

\* ------------------------------------------------------------------------
\* Window aggregator
\* ------------------------------------------------------------------------
roundToWindowBoundary(timestamp) ==
  (timestamp \div WINDOW_DURATION_MS) * WINDOW_DURATION_MS

createNewBuffer(S) ==
  [S EXCEPT !.activityBuffer =
     [windowStart |-> roundToWindowBoundary(now), domains |-> EmptyMap]]

EmptyDomainBuffer == [activeSeconds |-> 0, backgroundSeconds |-> 0]

\* domains.get(domain), created with zeros when absent
DomainBufferOf(domains, domain) ==
  IF domain \in DOMAIN domains THEN domains[domain] ELSE EmptyDomainBuffer

addActiveSeconds(domains, domain, elapsedSeconds) ==
  MapSet(domains, domain,
         [DomainBufferOf(domains, domain)
            EXCEPT !.activeSeconds = @ + elapsedSeconds])

\* addBackgroundSeconds counting the seconds as active seconds as well
addBackgroundSecondsBoth(domains, domain, elapsedSeconds) ==
  MapSet(domains, domain,
         [DomainBufferOf(domains, domain)
            EXCEPT !.backgroundSeconds = @ + elapsedSeconds,
                   !.activeSeconds = @ + elapsedSeconds])

addBackgroundSeconds(domains, domain, elapsedSeconds) ==
  MapSet(domains, domain,
         [DomainBufferOf(domains, domain)
            EXCEPT !.backgroundSeconds = @ + elapsedSeconds])

\* for (const bgTab of this.backgroundTabs.values()) ...
RECURSIVE accumulateBackground(_, _, _, _)
accumulateBackground(domains, bg, ids, elapsedSeconds) ==
  IF ids = {} THEN domains
  ELSE LET tabId == CHOOSE x \in ids : \A y \in ids : x <= y
           d1 == IF bg[tabId].isTracking
                 THEN addBackgroundSeconds(domains, bg[tabId].domain,
                                           elapsedSeconds)
                 ELSE domains
       IN accumulateBackground(d1, bg, ids \ {tabId}, elapsedSeconds)

onTickElapsed(S) == (now - S.lastTickAt) \div 1000

\* onTick without the rotation at the window boundary
onTickNoRotate(S) ==
  LET elapsedSeconds == onTickElapsed(S)
      S0 == [S EXCEPT !.lastTickAt = now]
  IN
  IF elapsedSeconds <= 0 \/ S.isPaused \/ S.isIdle THEN S0
  ELSE
    LET d1 == IF S0.activeTab # <<>> /\ S0.activeTab[1].isTracking
              THEN addActiveSeconds(S0.activityBuffer.domains,
                                    S0.activeTab[1].domain, elapsedSeconds)
              ELSE S0.activityBuffer.domains
        d2 == accumulateBackground(d1, S0.backgroundTabs,
                                   DOMAIN S0.backgroundTabs, elapsedSeconds)
    IN [S0 EXCEPT !.activityBuffer.domains = d2]

onTick(S) ==
  LET elapsedSeconds == onTickElapsed(S)
      S0 == [S EXCEPT !.lastTickAt = now]
  IN
  IF elapsedSeconds <= 0 \/ S.isPaused \/ S.isIdle THEN S0
  ELSE
    LET S1 == IF S0.activityBuffer.windowStart # roundToWindowBoundary(now)
              THEN createNewBuffer(S0) ELSE S0
        d1 == IF S1.activeTab # <<>> /\ S1.activeTab[1].isTracking
              THEN addActiveSeconds(S1.activityBuffer.domains,
                                    S1.activeTab[1].domain, elapsedSeconds)
              ELSE S1.activityBuffer.domains
        d2 == accumulateBackground(d1, S1.backgroundTabs,
                                   DOMAIN S1.backgroundTabs, elapsedSeconds)
    IN [S1 EXCEPT !.activityBuffer.domains = d2]

\* what getActivityWindow returns: <<>> for null, else <<ActivityWindow>>
getActivityWindow(S) ==
  IF DOMAIN S.activityBuffer.domains = {} THEN <<>>
  ELSE <<[windowStart |-> S.activityBuffer.windowStart,
          windowMinutes |-> 5,
          isFinal |-> S.activityBuffer.windowStart
                        < roundToWindowBoundary(now),
          activities |-> S.activityBuffer.domains]>>

clearCurrentBuffer(S) == createNewBuffer(S)

\* ------------------------------------------------------------------------
\* Initial state: the fields as constructed, initialize() having loaded the
\* default settings and tracker state, created the buffer and started the
\* ticker, and being suspended in initializeCurrentState
\* ------------------------------------------------------------------------
InitHandler == [h |-> "init1", tabId |-> 0, next |-> "none"]

\* seconds until expiry the auth server puts on an access token
ServerExpiresIn == {3600}

TOKEN_REFRESH_BUFFER_MS == 60000

\* the registrations one run of initialize() leaves: one set of tracker
\* listeners, one auth-change callback and one ticker
OneInitializeRun ==
  /\ initRuns = EmptyMap
  /\ listeners = 1
  /\ authCallbacks = 1
  /\ tickIntervals = 1

\* the pipeline at rest, authenticated by a token that expires at expiresAt
\* and whose refresh timer scheduleTokenRefresh set at time setAt
InitPipeline(setAt, expiresAt) ==
  /\ tokens = <<[accessToken |-> 1, refreshToken |-> 1,
                 expiresAt |-> expiresAt]>>
  /\ refreshTimer = <<expiresAt - TOKEN_REFRESH_BUFFER_MS>>
  /\ setAt <= expiresAt - TOKEN_REFRESH_BUFFER_MS
  /\ userEmail = <<"user">>
  /\ storedAuth = tokens
  /\ issued = 1
  /\ procs = EmptyMap
  /\ cycleCount = 0
  /\ queuedEvents = <<>>
  /\ queuedBy = <<>>
  /\ dailyStats = EmptyMap
  /\ accepted = EmptyMap
  /\ outage = [n |-> 0, from |-> EmptyMap]
  /\ authNotices = 0

\* the worker has started and initialize() has reached the first host call
\* of initializeCurrentState; the host's focus and the number of host
\* events to come are set by the specification.  The registrations are
\* counted as this run leaves them: the run is not followed past
\* initializeCurrentState here
InitState ==
  /\ now \in StartTimes
  /\ InitPipeline(now, now + 3600000)
  /\ ledger = EmptyMap
  /\ clockSteps = 0
  /\ hostTabs = Tabs
  /\ hostUrl = [t \in Tabs |-> IF t = 1 THEN UrlA1 ELSE UrlB1]
  /\ hostActive = 1
  /\ hostAudible = {}
  /\ hostIdle = FALSE
  /\ activeTab = <<>>
  /\ backgroundTabs = EmptyMap
  /\ visibleTabs = {}
  /\ audibleTabs = {}
  /\ videoPlayingTabs = {}
  /\ isIdle = FALSE
  /\ isPaused = FALSE
  /\ settings = [blocklist |-> {}, trackFullUrlDomains |-> {}]
  /\ pendingStarts = EmptyMap
  /\ timers = {}
  /\ activityBuffer = [windowStart |-> roundToWindowBoundary(now),
                       domains |-> EmptyMap]
  /\ lastTickAt = now
  /\ inflight = {InitHandler}
  /\ visitStart = now - DEBOUNCE_THRESHOLD_MS
  /\ shortLeftAt = [t \in Tabs |-> -1]
  /\ lastVisit = [tab |-> IF hostFocus = "none" THEN 0 ELSE hostActive,
                  start |-> visitStart, end |-> -1, seconds |-> 0]
  /\ resumedAt = <<>>
  /\ OneInitializeRun

\* the worker starts while the browser window has the focus
Init ==
  /\ events = MaxEvents
  /\ hostFocus = "normal"
  /\ InitState

\* the worker starts while the browser window has the focus or while
\* another application has it
InitShort ==
  /\ events = MaxEventsShort
  /\ hostFocus \in {"normal", "none"}
  /\ InitState

\* ------------------------------------------------------------------------
\* Host: the focused tab and the record of visits
\* ------------------------------------------------------------------------
\* the tab the user is on: the active tab of the normal window while the
\* browser, or the extension's popup over it, has the focus; 0 for none
FocusedTabOf(focus, active) == IF focus = "none" THEN 0 ELSE active

FocusedTab == FocusedTabOf(hostFocus, hostActive)

\* the visit record when the focused tab changes from FocusedTab to newTab
VisitChange(newTab) ==
  IF newTab = FocusedTab
  THEN UNCHANGED <<visitStart, shortLeftAt, lastVisit, resumedAt>>
  ELSE /\ UNCHANGED resumedAt
       /\ visitStart' = now
       /\ lastVisit' = IF newTab = 0 THEN [lastVisit EXCEPT !.end = now]
                       ELSE [tab |-> newTab, start |-> now, end |-> -1,
                             seconds |-> 0]
       /\ shortLeftAt' =
            IF FocusedTab # 0 /\ now - visitStart < DEBOUNCE_THRESHOLD_MS
            THEN [shortLeftAt EXCEPT ![FocusedTab] = now]
            ELSE shortLeftAt

\* the record of the latest resumption, kept by the steps that may end a
\* pause or an idle period
ResumeNoted ==
  resumedAt' = IF (isPaused \/ isIdle) /\ ~(isPaused' \/ isIdle')
               THEN <<now>> ELSE resumedAt

CanSuspend == Cardinality(inflight) < MaxInflight

HostEvent ==
  /\ events > 0
  /\ events' = events - 1
  /\ UNCHANGED <<now, clockSteps, hbVars, workerVars>>

Suspend(handler) == inflight' = inflight \cup {handler}

\* a suspended handler: the host call it waits for, the tab it is about and,
\* for handleTabActivated called from initializeCurrentState, the caller's
\* continuation
Handler(h, tabId, next) == [h |-> h, tabId |-> tabId, next |-> next]

\* the handler hd returns: its caller's continuation, if any, takes its place
Return(hd) ==
  inflight' = IF hd.next = "none" THEN inflight \ {hd}
              ELSE (inflight \ {hd}) \cup {Handler(hd.next, 0, "none")}

\* the awaits of extension storage, which complete within one clock step;
\* the awaits of the network take any time
StoragePcs ==
  {"getQueue", "clearQueue", "enqueueRead", "enqueueWrite", "statsRead",
   "statsWrite", "refreshSave", "logoutClear"}

\* ------------------------------------------------------------------------
\* Clock, debounce timers, ticker
\* ------------------------------------------------------------------------
\* The clock moves on when the work that is due has run: host calls return
\* and debounce and refresh timers fire within the second, and the ticker
\* misses at most missed callbacks in a row.
ClockStep(missed) ==
  /\ inflight = {}
  /\ \A tm \in timers : now < tm.due
  /\ refreshTimer # <<>> => now < refreshTimer[1]
  /\ \A c \in DOMAIN procs : procs[c].pc \notin StoragePcs
  /\ now - lastTickAt < (missed + 1) * TICK_INTERVAL_MS
  /\ \E d \in ClockDeltas : now' = now + d
  /\ clockSteps' = clockSteps + 1
  /\ UNCHANGED <<events, hostVars, trackerVars, inflight, historyVars, workerVars, hbVars>>

Advance ==
  /\ clockSteps < MaxClockSteps
  /\ ClockStep(MaxMissedTicks)

\* the closure passed to setTimeout in startActiveTracking and in
\* maybeStartBackgroundTracking
TimerFires ==
  \E tm \in timers :
    /\ now >= tm.due
    /\ LET S1 == [Tracker EXCEPT
                    !.timers = @ \ {tm},
                    !.pendingStarts = MapDelete(@, tm.tabId)]
       IN Commit(IF tm.isBackground
                 THEN confirmBackgroundStart(S1, tm.tabId, tm.url, tm.domain)
                 ELSE confirmActiveStart(S1, tm.tabId, tm.url, tm.domain))
    /\ UNCHANGED <<hbVars, now, clockSteps, events, hostVars, inflight, historyVars, workerVars>>

\* sum of activeSeconds + backgroundSeconds over the domains of a buffer
RECURSIVE SumSeconds(_, _)
SumSeconds(domains, ds) ==
  IF ds = {} THEN 0
  ELSE LET d == CHOOSE x \in ds : TRUE
       IN domains[d].activeSeconds + domains[d].backgroundSeconds
            + SumSeconds(domains, ds \ {d})

TotalSeconds(domains) == SumSeconds(domains, DOMAIN domains)

\* the ledger after a tick took the buffer from old to new
LedgerAfter(old, new) ==
  LET base == IF new.windowStart = old.windowStart
              THEN TotalSeconds(old.domains) ELSE 0
      added == TotalSeconds(new.domains) - base
      prev == IF new.windowStart \in DOMAIN ledger
              THEN ledger[new.windowStart] ELSE 0
  IN IF added = 0 THEN ledger
     ELSE MapSet(ledger, new.windowStart, prev + added)

\* the active seconds of a domain in a buffer
ActiveSecondsOf(buffer, domain) ==
  IF domain \in DOMAIN buffer.domains
  THEN buffer.domains[domain].activeSeconds ELSE 0

\* the latest visit after a tick took the buffer from old to new: the active
\* seconds the tick attributed to the record of the visited tab are added
VisitAfter(old, new) ==
  IF activeTab = <<>> \/ activeTab[1].tabId # lastVisit.tab THEN lastVisit
  ELSE LET d == activeTab[1].domain
           base == IF new.windowStart = old.windowStart
                   THEN ActiveSecondsOf(old, d) ELSE 0
       IN [lastVisit EXCEPT !.seconds = @ + ActiveSecondsOf(new, d) - base]

\* the setInterval callback of startTicker
Tick ==
  /\ now > lastTickAt
  /\ Commit(onTick(Tracker))
  /\ ledger' = LedgerAfter(activityBuffer, onTick(Tracker).activityBuffer)
  /\ lastVisit' = VisitAfter(activityBuffer, onTick(Tracker).activityBuffer)
  /\ resumedAt' = <<>>
  /\ UNCHANGED <<visitStart, shortLeftAt, workerVars>>
  /\ UNCHANGED <<authVars, procs, cycleCount, queuedEvents, queuedBy,
                 dailyStats, accepted, outage>>
  /\ UNCHANGED <<now, clockSteps, events, hostVars, inflight>>

\* ------------------------------------------------------------------------
\* Host events and the handlers they start
\* ------------------------------------------------------------------------
\* tabs.onActivated: handleTabActivated up to its first host call
TabActivated ==
  \E t \in hostTabs :
    /\ t # hostActive
    /\ HostEvent
    /\ hostActive' = t
    /\ VisitChange(FocusedTabOf(hostFocus, t))
    /\ IF isPaused THEN UNCHANGED inflight
       ELSE /\ CanSuspend
            /\ Suspend(Handler("activated1", t, "none"))
    /\ UNCHANGED <<hostTabs, hostUrl, hostFocus, hostAudible, hostIdle,
                   trackerVars>>

\* handleTabActivated: browser.windows.get(windowId) returned
TabActivatedWindow ==
  \E hd \in inflight :
    /\ hd.h = "activated1"
    /\ IF hostFocus = "normal"
       THEN inflight' = (inflight \ {hd}) \cup
                          {Handler("activated2", hd.tabId, hd.next)}
       ELSE Return(hd)
    /\ UNCHANGED <<hbVars, now, clockSteps, events, hostVars, trackerVars, historyVars, workerVars>>

\* handleTabActivated: browser.tabs.get(tabId) returned (or threw, when the
\* tab is gone), and the rest of the handler
TabActivatedTab ==
  \E hd \in inflight :
    /\ hd.h = "activated2"
    /\ Return(hd)
    /\ Commit(IF hd.tabId \in hostTabs
              THEN handleTabActivatedTail(Tracker, hd.tabId, hostUrl[hd.tabId])
              ELSE Tracker)
    /\ UNCHANGED <<hbVars, now, clockSteps, events, hostVars, historyVars, workerVars>>

\* windows.onFocusChanged(WINDOW_ID_NONE), the browser having lost the
\* focus: handleWindowFocusChanged up to browser.windows.getAll
FocusLost ==
  /\ hostFocus # "none"
  /\ HostEvent
  /\ hostFocus' = "none"
  /\ VisitChange(0)
  /\ IF isPaused THEN UNCHANGED inflight
     ELSE /\ CanSuspend
          /\ Suspend(Handler("focusNone", 0, "none"))
  /\ UNCHANGED <<hostTabs, hostUrl, hostActive, hostAudible, hostIdle,
                 trackerVars>>

\* windows.onFocusChanged when the extension's popup takes the focus,
\* reported as WINDOW_ID_NONE or as the popup's window id
PopupFocused ==
  /\ hostFocus = "normal"
  /\ HostEvent
  /\ hostFocus' = "popup"
  /\ VisitChange(hostActive)
  /\ IF isPaused THEN UNCHANGED inflight
     ELSE /\ CanSuspend
          /\ \E windowId \in {WINDOW_ID_NONE, PopupWindow} :
               Suspend(Handler(IF windowId = WINDOW_ID_NONE
                               THEN "focusNone" ELSE "focusPopup",
                               0, "none"))
  /\ UNCHANGED <<hostTabs, hostUrl, hostActive, hostAudible, hostIdle,
                 trackerVars>>

\* handleWindowFocusChanged(popup window id): windows.get and tabs.query
\* returned the extension page, or threw: the handler returns
FocusPopupReturns ==
  \E hd \in inflight :
    /\ hd.h = "focusPopup"
    /\ inflight' = inflight \ {hd}
    /\ UNCHANGED <<hbVars, now, clockSteps, events, hostVars, trackerVars, historyVars, workerVars>>

\* handleWindowFocusChanged(WINDOW_ID_NONE) without the test for a focused
\* extension popup
handleFocusNoneTailAlwaysLoss(S) ==
  IF S.activeTab = <<>> THEN S
  ELSE LET wasActive == S.activeTab[1]
           S1 == endActiveTracking(S)
       IN IF wasActive.tabId \in S1.visibleTabs
             \/ wasActive.tabId \in S1.audibleTabs
          THEN maybeStartBackgroundTracking(S1, wasActive.tabId, wasActive.url)
          ELSE S1

\* handleWindowFocusChanged(WINDOW_ID_NONE): browser.windows.getAll returned
handleFocusNoneTail(S) ==
  IF hostFocus = "popup" THEN S
  ELSE IF S.activeTab = <<>> THEN S
  ELSE LET wasActive == S.activeTab[1]
           S1 == endActiveTracking(S)
       IN IF wasActive.tabId \in S1.visibleTabs
             \/ wasActive.tabId \in S1.audibleTabs
          THEN maybeStartBackgroundTracking(S1, wasActive.tabId, wasActive.url)
          ELSE S1

FocusNoneReturns ==
  \E hd \in inflight :
    /\ hd.h = "focusNone"
    /\ inflight' = inflight \ {hd}
    /\ Commit(handleFocusNoneTail(Tracker))
    /\ UNCHANGED <<hbVars, now, clockSteps, events, hostVars, historyVars, workerVars>>

\* windows.onFocusChanged(normal window): handleWindowFocusChanged up to
\* browser.windows.get
FocusGained ==
  /\ hostFocus # "normal"
  /\ HostEvent
  /\ hostFocus' = "normal"
  /\ VisitChange(hostActive)
  /\ IF isPaused THEN UNCHANGED inflight
     ELSE /\ CanSuspend
          /\ Suspend(Handler("focusNormal", 0, "none"))
  /\ UNCHANGED <<hostTabs, hostUrl, hostActive, hostAudible, hostIdle,
                 trackerVars>>

\* handleWindowFocusChanged(normal window): windows.get and
\* tabs.query({active, windowId}) returned; handleTabActivated is entered
FocusNormalReturns ==
  \E hd \in inflight :
    /\ hd.h = "focusNormal"
    /\ inflight' = IF hostActive # 0 /\ ~isPaused
                   THEN (inflight \ {hd}) \cup
                          {Handler("activated1", hostActive, "none")}
                   ELSE inflight \ {hd}
    /\ UNCHANGED <<hbVars, now, clockSteps, events, hostVars, trackerVars, historyVars, workerVars>>

\* tabs.onUpdated with changeInfo.url: handleTabUrlChanged
handleTabUrlChanged(S, tabId, url) ==
  LET domain == extractDomain(url)
      isBlocked == isDomainBlocked(domain, S.settings.blocklist)
      isTrackable == isTrackableUrl(url)
  IN
  IF S.isPaused THEN S
  ELSE IF S.activeTab # <<>> /\ S.activeTab[1].tabId = tabId
  THEN IF ~isTrackable \/ isBlocked THEN endActiveTracking(S)
       ELSE IF S.activeTab[1].domain # domain
       THEN startActiveTracking(endActiveTracking(S), tabId, url, domain)
       ELSE [S EXCEPT !.activeTab[1].url = url]
  ELSE IF tabId \in DOMAIN S.backgroundTabs
  THEN IF ~isTrackable \/ isBlocked THEN endBackgroundTracking(S, tabId)
       ELSE IF S.backgroundTabs[tabId].domain # domain
       THEN maybeStartBackgroundTracking(endBackgroundTracking(S, tabId),
                                         tabId, url)
       ELSE [S EXCEPT !.backgroundTabs[tabId].url = url]
  ELSE S

TabUrlChanged ==
  \E t \in hostTabs, u \in Urls :
    /\ u # hostUrl[t]
    /\ HostEvent
    /\ hostUrl' = [hostUrl EXCEPT ![t] = u]
    /\ Commit(handleTabUrlChanged(Tracker, t, u))
    /\ UNCHANGED <<hostTabs, hostActive, hostFocus, hostAudible, hostIdle,
                   inflight, historyVars, workerVars>>

\* tabs.onUpdated with changeInfo.url: the tab shows the source of a page
TabShowsViewSource ==
  \E t \in hostTabs :
    /\ UrlViewSource # hostUrl[t]
    /\ HostEvent
    /\ hostUrl' = [hostUrl EXCEPT ![t] = UrlViewSource]
    /\ Commit(handleTabUrlChanged(Tracker, t, UrlViewSource))
    /\ UNCHANGED <<hostTabs, hostActive, hostFocus, hostAudible, hostIdle,
                   inflight, historyVars, workerVars>>

\* tabs.onUpdated with changeInfo.audible: handleTabAudibleChanged up to
\* browser.tabs.get
TabAudibleChanged ==
  \E t \in hostTabs :
    /\ HostEvent
    /\ IF t \in hostAudible
       THEN /\ hostAudible' = hostAudible \ {t}
            /\ LET S1 == [Tracker EXCEPT !.audibleTabs = @ \ {t}]
               IN Commit(IF t \notin S1.visibleTabs
                            /\ t \notin S1.videoPlayingTabs
                         THEN endBackgroundTracking(S1, t) ELSE S1)
            /\ UNCHANGED inflight
       ELSE /\ hostAudible' = hostAudible \cup {t}
            /\ Commit([Tracker EXCEPT !.audibleTabs = @ \cup {t}])
            /\ IF activeTab # <<>> /\ activeTab[1].tabId = t
               THEN UNCHANGED inflight
               ELSE /\ CanSuspend
                    /\ Suspend(Handler("signal", t, "none"))
    /\ UNCHANGED <<hostTabs, hostUrl, hostActive, hostFocus, hostIdle,
                   historyVars, workerVars>>

\* VISIBILITY_CHANGED from the tab's content script: handleVisibilityChanged
\* up to browser.tabs.get
VisibilityChanged ==
  \E t \in hostTabs :
    /\ HostEvent
    /\ IF t \in visibleTabs
       THEN /\ LET S1 == [Tracker EXCEPT !.visibleTabs = @ \ {t}]
               IN Commit(IF t \notin S1.audibleTabs
                            /\ t \notin S1.videoPlayingTabs
                         THEN endBackgroundTracking(S1, t) ELSE S1)
            /\ UNCHANGED inflight
       ELSE /\ Commit([Tracker EXCEPT !.visibleTabs = @ \cup {t}])
            /\ IF activeTab # <<>> /\ activeTab[1].tabId = t
               THEN UNCHANGED inflight
               ELSE /\ CanSuspend
                    /\ Suspend(Handler("signal", t, "none"))
    /\ UNCHANGED <<hostVars, historyVars, workerVars>>

\* VIDEO_PLAYING_CHANGED from the tab's content script:
\* handleVideoPlayingChanged up to browser.tabs.get
VideoPlayingChanged ==
  \E t \in hostTabs :
    /\ HostEvent
    /\ IF t \in videoPlayingTabs
       THEN /\ LET S1 == [Tracker EXCEPT !.videoPlayingTabs = @ \ {t}]
               IN Commit(IF t \notin S1.visibleTabs
                            /\ t \notin S1.audibleTabs
                         THEN endBackgroundTracking(S1, t) ELSE S1)
            /\ UNCHANGED inflight
       ELSE /\ Commit([Tracker EXCEPT !.videoPlayingTabs = @ \cup {t}])
            /\ IF activeTab # <<>> /\ activeTab[1].tabId = t
               THEN UNCHANGED inflight
               ELSE /\ CanSuspend
                    /\ Suspend(Handler("signal", t, "none"))
    /\ UNCHANGED <<hostVars, historyVars, workerVars>>

\* browser.tabs.get(tabId) returned to handleTabAudibleChanged,
\* handleVisibilityChanged or handleVideoPlayingChanged (or rejected, when
\* the tab is gone): maybeStartBackgroundTracking(tabId, tab.url)
SignalTabReturns ==
  \E hd \in inflight :
    /\ hd.h = "signal"
    /\ Return(hd)
    /\ Commit(IF hd.tabId \in hostTabs
              THEN maybeStartBackgroundTracking(Tracker, hd.tabId,
                                                hostUrl[hd.tabId])
              ELSE Tracker)
    /\ UNCHANGED <<hbVars, now, clockSteps, events, hostVars, historyVars, workerVars>>

\* handleTabRemoved leaving the tab in the signal sets
handleTabRemovedKeepSignals(S, tabId) ==
  LET S1 == IF tabId \in DOMAIN S.pendingStarts
            THEN CancelPending(S, tabId) ELSE S
      S3 == IF S1.activeTab # <<>> /\ S1.activeTab[1].tabId = tabId
            THEN endActiveTracking(S1) ELSE S1
  IN endBackgroundTracking(S3, tabId)

\* tabs.onRemoved: handleTabRemoved
handleTabRemoved(S, tabId) ==
  LET S1 == IF tabId \in DOMAIN S.pendingStarts
            THEN CancelPending(S, tabId) ELSE S
      S2 == [S1 EXCEPT !.visibleTabs = @ \ {tabId},
                       !.audibleTabs = @ \ {tabId},
                       !.videoPlayingTabs = @ \ {tabId}]
      S3 == IF S2.activeTab # <<>> /\ S2.activeTab[1].tabId = tabId
            THEN endActiveTracking(S2) ELSE S2
  IN endBackgroundTracking(S3, tabId)

\* the tab the browser activates when the active tab is closed
NextActiveAfter(t) ==
  IF hostTabs \ {t} = {} THEN 0
  ELSE CHOOSE x \in hostTabs \ {t} : \A y \in hostTabs \ {t} : x <= y

\* the user closes tab t; when it was the active tab the browser activates
\* another one and tabs.onActivated starts handleTabActivated for it
TabRemoved ==
  \E t \in hostTabs :
    /\ HostEvent
    /\ hostTabs' = hostTabs \ {t}
    /\ hostAudible' = hostAudible \ {t}
    /\ hostActive' = IF t = hostActive THEN NextActiveAfter(t) ELSE hostActive
    /\ VisitChange(FocusedTabOf(hostFocus, hostActive'))
    /\ Commit(handleTabRemoved(Tracker, t))
    /\ IF t = hostActive /\ NextActiveAfter(t) # 0 /\ ~isPaused
       THEN /\ CanSuspend
            /\ Suspend(Handler("activated1", NextActiveAfter(t), "none"))
       ELSE UNCHANGED inflight
    /\ UNCHANGED <<hostUrl, hostFocus, hostIdle>>

\* idle.onStateChanged: handleIdleStateChanged, up to the host calls of
\* initializeCurrentState when the user became active
IdleStateChanged ==
  /\ HostEvent
  /\ hostIdle' = ~hostIdle
  /\ LET wasIdle == isIdle
         S0 == [Tracker EXCEPT !.isIdle = hostIdle']
     IN IF S0.isIdle /\ ~wasIdle
        THEN /\ Commit(endAllBackgroundTracking(endActiveTracking(S0),
                                                DOMAIN S0.backgroundTabs))
             /\ UNCHANGED inflight
        ELSE IF ~S0.isIdle /\ wasIdle
        THEN /\ Commit(S0)
             /\ CanSuspend
             /\ Suspend(InitHandler)
        ELSE /\ Commit(S0)
             /\ UNCHANGED inflight
  /\ ResumeNoted
  /\ UNCHANGED <<hostTabs, hostUrl, hostActive, hostFocus, hostAudible,
                 visitStart, shortLeftAt, lastVisit, workerVars>>

\* initializeCurrentState: windows.getAll and tabs.query({active}) returned;
\* handleTabActivated(tabs[0].id, targetWindow.id) is entered
InitActiveTab ==
  \E hd \in inflight :
    /\ hd.h = "init1"
    /\ inflight' = (inflight \ {hd}) \cup
         {IF hostActive # 0 /\ ~isPaused
          THEN Handler("activated1", hostActive, "init2")
          ELSE Handler("init2", 0, "none")}
    /\ UNCHANGED <<hbVars, now, clockSteps, events, hostVars, trackerVars, historyVars, workerVars>>

\* for (const tab of audibleTabs) of initializeCurrentState
RECURSIVE initAudibleTabs(_, _)
initAudibleTabs(S, ids) ==
  IF ids = {} THEN S
  ELSE LET tabId == CHOOSE x \in ids : \A y \in ids : x <= y
           S1 == [S EXCEPT !.audibleTabs = @ \cup {tabId}]
           S2 == IF S1.activeTab # <<>> /\ S1.activeTab[1].tabId = tabId
                 THEN S1
                 ELSE maybeStartBackgroundTracking(S1, tabId, hostUrl[tabId])
       IN initAudibleTabs(S2, ids \ {tabId})

\* initializeCurrentState: tabs.query({audible: true}) returned
InitAudible ==
  \E hd \in inflight :
    /\ hd.h = "init2"
    /\ inflight' = (inflight \ {hd}) \cup {Handler("init3", 0, "none")}
    /\ Commit(initAudibleTabs(Tracker, hostAudible))
    /\ UNCHANGED <<hbVars, now, clockSteps, events, hostVars, historyVars, workerVars>>

\* initializeCurrentState: idle.queryState returned
InitIdle ==
  \E hd \in inflight :
    /\ hd.h = "init3"
    /\ Return(hd)
    /\ Commit(IF hostIdle THEN [Tracker EXCEPT !.isIdle = TRUE] ELSE Tracker)
    /\ UNCHANGED <<hbVars, now, clockSteps, events, hostVars, historyVars, workerVars>>

\* for (const pending of this.pendingStarts.values()) clearTimeout(...);
\* this.pendingStarts.clear()
clearPendingStarts(S) ==
  [S EXCEPT
     !.timers = {tm \in @ : \A k \in DOMAIN S.pendingStarts :
                              S.pendingStarts[k].timeoutId # tm.id},
     !.pendingStarts = EmptyMap]

\* setPaused(true)
pauseTracking(S) ==
  LET S0 == [S EXCEPT !.isPaused = TRUE]
      S1 == endAllBackgroundTracking(endActiveTracking(S0),
                                     DOMAIN S0.backgroundTabs)
  IN clearPendingStarts(S1)

\* TOGGLE_PAUSE from the popup: togglePause, i.e. setPaused(!isPaused), up
\* to the host calls of initializeCurrentState on resume
TogglePause ==
  /\ HostEvent
  /\ IF ~isPaused
     THEN /\ Commit(pauseTracking(Tracker))
          /\ UNCHANGED inflight
     ELSE /\ Commit([Tracker EXCEPT !.isPaused = FALSE])
          /\ CanSuspend
          /\ Suspend(InitHandler)
  /\ ResumeNoted
  /\ UNCHANGED <<hostVars, visitStart, shortLeftAt, lastVisit, workerVars>>

\* blocklists the user may save on the options page
Blocklists == {{}, {<<"b", "com">>}}

\* storage.onChanged for settings, UPDATE_SETTINGS: this.settings = newValue
SettingsChanged ==
  \E bl \in Blocklists :
    /\ bl # settings.blocklist
    /\ HostEvent
    /\ Commit([Tracker EXCEPT !.settings.blocklist = bl])
    /\ UNCHANGED <<hostVars, inflight, historyVars, workerVars>>

\* ------------------------------------------------------------------------
\* The tab state machine with the aggregator
\* ------------------------------------------------------------------------
Next ==
  \/ Advance
  \/ TimerFires
  \/ Tick
  \/ TabActivated
  \/ TabActivatedWindow
  \/ TabActivatedTab
  \/ FocusLost
  \/ PopupFocused
  \/ FocusPopupReturns
  \/ FocusNoneReturns
  \/ FocusGained
  \/ FocusNormalReturns
  \/ TabUrlChanged
  \/ TabAudibleChanged
  \/ VisibilityChanged
  \/ VideoPlayingChanged
  \/ SignalTabReturns
  \/ TabRemoved
  \/ IdleStateChanged
  \/ InitActiveTab
  \/ InitAudible
  \/ InitIdle
  \/ TogglePause
  \/ SettingsChanged

Spec == Init /\ [][Next]_vars

\* the same machine over behaviours of fewer host events
SpecShort == InitShort /\ [][Next]_vars

\* the same machine with a user who may also open the source of a page
NextViewSource ==
  \/ Advance
  \/ TimerFires
  \/ Tick
  \/ TabActivated
  \/ TabActivatedWindow
  \/ TabActivatedTab
  \/ FocusLost
  \/ PopupFocused
  \/ FocusPopupReturns
  \/ FocusNoneReturns
  \/ FocusGained
  \/ FocusNormalReturns
  \/ TabUrlChanged
  \/ TabShowsViewSource
  \/ TabAudibleChanged
  \/ VisibilityChanged
  \/ VideoPlayingChanged
  \/ SignalTabReturns
  \/ TabRemoved
  \/ IdleStateChanged
  \/ InitActiveTab
  \/ InitAudible
  \/ InitIdle
  \/ TogglePause
  \/ SettingsChanged

SpecViewSource == InitShort /\ [][NextViewSource]_vars

\* the worker starts while no browser window has the focus
InitNoFocus ==
  /\ events = MaxEvents
  /\ hostFocus = "none"
  /\ InitState

SpecNoFocus == InitNoFocus /\ [][Next]_vars

\* what the user of a running worker is doing: at the browser on tab 1
\* with tab 2 visible behind it, the same with tab 2 audible too, idle, or
\* away in another application
RunningModes == {"visible", "audible", "idle", "away"}

\* the worker started five clock steps ago.  Tab 1 got the focus then and
\* its active start was confirmed at this instant; after that the mode's
\* events were handled: the content script of tab 2 reported it visible
\* (and the browser audible), which armed its background start, and the
\* user went idle before that, or left the browser
InitRunningState(mode) ==
  /\ now = 299000
  /\ InitPipeline(now, now + 3600000)
  /\ ledger = EmptyMap
  /\ clockSteps = DEBOUNCE_THRESHOLD_MS \div 1000
  /\ hostTabs = Tabs
  /\ hostUrl = [t \in Tabs |-> IF t = 1 THEN UrlA1 ELSE UrlB1]
  /\ hostActive = 1
  /\ hostFocus = IF mode = "away" THEN "none" ELSE "normal"
  /\ hostAudible = IF mode = "audible" THEN {2} ELSE {}
  /\ hostIdle = (mode = "idle")
  /\ activeTab = IF mode \in {"idle", "away"} THEN <<>>
                 ELSE <<[tabId |-> 1, domain |-> extractDomain(UrlA1),
                         url |-> UrlA1, isBackground |-> FALSE,
                         startTime |-> now, isTracking |-> TRUE]>>
  /\ backgroundTabs = EmptyMap
  /\ visibleTabs = {2}
  /\ audibleTabs = hostAudible
  /\ videoPlayingTabs = {}
  /\ isIdle = hostIdle
  /\ isPaused = FALSE
  /\ settings = [blocklist |-> {}, trackFullUrlDomains |-> {}]
  /\ pendingStarts =
       IF mode = "idle" THEN EmptyMap
       ELSE MapSet(EmptyMap, 2,
                   [tabId |-> 2, domain |-> extractDomain(UrlB1),
                    url |-> UrlB1, isBackground |-> TRUE,
                    scheduledTime |-> now, timeoutId |-> 1])
  /\ timers =
       IF mode = "idle" THEN {}
       ELSE {[id |-> 1, tabId |-> 2, url |-> UrlB1,
              domain |-> extractDomain(UrlB1), isBackground |-> TRUE,
              due |-> now + DEBOUNCE_THRESHOLD_MS]}
  /\ activityBuffer = [windowStart |-> roundToWindowBoundary(now),
                       domains |-> EmptyMap]
  /\ lastTickAt = now
  /\ inflight = {}
  /\ visitStart = IF mode = "away" THEN now ELSE now - DEBOUNCE_THRESHOLD_MS
  /\ shortLeftAt = [t \in Tabs |-> -1]
  /\ lastVisit = [tab |-> 1, start |-> now - DEBOUNCE_THRESHOLD_MS,
                  end |-> IF mode = "away" THEN now ELSE -1, seconds |-> 0]
  /\ resumedAt = <<>>
  /\ OneInitializeRun

\* a running worker with MaxEvents host events to come
InitRunning ==
  /\ events = MaxEvents
  /\ \E mode \in RunningModes : InitRunningState(mode)

SpecRunning == InitRunning /\ [][Next]_vars

\* the same over behaviours of fewer host events
InitRunningShort ==
  /\ events = MaxEventsShort
  /\ \E mode \in RunningModes : InitRunningState(mode)

SpecRunningShort == InitRunningShort /\ [][Next]_vars

\* ------------------------------------------------------------------------
\* Token lifecycle manager
\* ------------------------------------------------------------------------
\* number of heartbeat alarms in one behaviour
MaxCycles == 3

\* number of heartbeat alarms in one behaviour of the short pipeline
MaxCyclesShort == 2

\* number of clock steps in one run of the pipeline
MaxHbClockSteps == 2

\* the process id of the refreshToken() call made by the refresh timer
TimerProc == 0

\* the process id of the logout() call made by the LOGOUT message handler
LogoutProc == -1

getAccessToken(toks) ==
  IF toks = <<>> THEN 0
  ELSE IF toks[1].expiresAt <= now THEN 0
  ELSE toks[1].accessToken

isAuthenticated == tokens # <<>> /\ tokens[1].expiresAt > now

\* the live timer scheduleTokenRefresh leaves behind
scheduleTokenRefresh(toks) ==
  IF toks = <<>> THEN <<>>
  ELSE LET timeUntilExpiry == toks[1].expiresAt - now
           refreshIn == IF timeUntilExpiry - TOKEN_REFRESH_BUFFER_MS > 0
                        THEN timeUntilExpiry - TOKEN_REFRESH_BUFFER_MS ELSE 0
       IN <<now + refreshIn>>

\* one call of sendHeartbeat by the alarm listener, or of refreshToken by
\* the refresh timer, with the locals it keeps across its awaits
NewProc ==
  [pc |-> "done", window |-> <<>>, isIdle |-> FALSE, events |-> <<>>,
   queued |-> <<>>, token |-> 0, tokenToUse |-> 0, saving |-> <<>>,
   posts |-> 0, refreshes |-> 0, got401 |-> FALSE, refreshed |-> FALSE,
   accepts |-> 0, success |-> FALSE, skipped |-> FALSE, existing |-> <<>>,
   stats |-> EmptyMap, outage |-> 0, ledgerAt |-> EmptyMap,
   ledgerFrom |-> EmptyMap, queuedFrom |-> <<>>, existingFrom |-> <<>>,
   sentBy |-> {}, tickAt |-> 0, prev |-> <<>>, noticesAt |-> 0]

\* a finished call keeps its outcome and drops its locals
Done(p) ==
  [p EXCEPT !.pc = "done", !.queued = <<>>, !.token = 0, !.tokenToUse = 0,
            !.saving = <<>>, !.existing = <<>>, !.stats = EmptyMap,
            !.queuedFrom = <<>>, !.existingFrom = <<>>]

Cycles == {c \in DOMAIN procs : c \notin {TimerProc, LogoutProc}}

InFlight == {c \in DOMAIN procs : procs[c].pc # "done"}

\* the calls under way, and the LOGOUT message once handled; the locals of
\* a finished heartbeat are gone when the next alarm fires
Running ==
  [c \in InFlight \cup (DOMAIN procs \cap {LogoutProc}) |-> procs[c]]

HbFrame ==
  UNCHANGED <<now, clockSteps, events, hostVars, inflight, historyVars, workerVars,
              ledger>>

\* the run of failed deliveries up to now, given the one before the finished
\* cycles ids; a delivered or a skipped cycle ends the run
RECURSIVE OutageAfter(_, _)
OutageAfter(n, ids) ==
  IF ids = {} THEN n
  ELSE LET c == CHOOSE x \in ids : \A y \in ids : x <= y
       IN OutageAfter(IF procs[c].success \/ procs[c].skipped
                        THEN 0 ELSE n + 1, ids \ {c})

TrackerUnchanged == UNCHANGED trackerVars

\* sendHeartbeat: queue the new events, if any, and return false
EnqueueOrDone(p) ==
  IF p.events # <<>> THEN [p EXCEPT !.pc = "enqueueRead"] ELSE Done(p)

\* the alarm listener clearing after any delivered window, final or not
SucceededAnyWindow(p) ==
  IF p.window # <<>>
  THEN [p EXCEPT !.success = TRUE, !.pc = "statsRead"]
  ELSE Done([p EXCEPT !.success = TRUE])

\* the alarm listener after sendHeartbeat returned true
Succeeded(p) ==
  IF p.window # <<>> /\ p.window[1].isFinal
  THEN [p EXCEPT !.success = TRUE, !.pc = "statsRead"]
  ELSE Done([p EXCEPT !.success = TRUE])

\* refreshToken returned result to its caller: the refresh timer ignores it,
\* sendHeartbeat retries with getAccessToken() or gives up
AfterRefresh(c, p, result, toks) ==
  IF c = TimerProc THEN MapDelete(procs, c)
  ELSE IF result /\ getAccessToken(toks) # 0
  THEN MapSet(procs, c, [p EXCEPT !.pc = "retryFetch", !.refreshed = TRUE,
                                  !.posts = @ + 1,
                                  !.token = getAccessToken(toks)])
  ELSE MapSet(procs, c, EnqueueOrDone([p EXCEPT !.refreshed = result]))

\* refreshToken() up to its fetch: <<>> when there is no refresh token; the
\* call notes how many auth-change notifications went out before it
refreshTokenCall(p) ==
  IF tokens = <<>> THEN <<>>
  ELSE <<[p EXCEPT !.pc = "refreshFetch",
                   !.tokenToUse = tokens[1].refreshToken,
                   !.noticesAt = authNotices]>>

\* the refresh timer's callback: this.refreshToken()
RefreshTimerFires ==
  /\ refreshTimer # <<>>
  /\ now >= refreshTimer[1]
  /\ TimerProc \notin DOMAIN procs
  /\ refreshTimer' = <<>>
  /\ procs' = IF refreshTokenCall(NewProc) = <<>> THEN procs
              ELSE MapSet(procs, TimerProc, refreshTokenCall(NewProc)[1])
  /\ UNCHANGED <<authNotices, tokens, userEmail, storedAuth, issued, cycleCount,
                 queuedEvents, queuedBy, dailyStats, accepted>>
  /\ TrackerUnchanged
  /\ UNCHANGED outage
  /\ HbFrame

\* logout() up to its first await: the refresh timer is cleared; with
\* tokens the logout endpoint is fetched, without them the fields are
\* nulled and clearStoredAuth is awaited.  The fields after it as
\* [tokens, userEmail, pc]
logoutCall ==
  IF tokens # <<>>
  THEN [tokens |-> tokens, userEmail |-> userEmail, pc |-> "logoutFetch"]
  ELSE [tokens |-> <<>>, userEmail |-> <<>>, pc |-> "logoutClear"]

\* refreshToken: the fetch of the refresh endpoint answered.  On 2xx the
\* tokens are replaced and saveAuth is called, which writes when a user
\* email is held and else returns at once, so that scheduleTokenRefresh
\* follows in the same step; otherwise logout() runs up to its first await
RefreshResponds ==
  \E c \in DOMAIN procs, ok \in BOOLEAN, expiresIn \in ServerExpiresIn :
    LET p == procs[c] IN
    /\ p.pc = "refreshFetch"
    /\ IF ok
       THEN LET toks == <<[accessToken |-> issued + 1,
                           refreshToken |-> p.tokenToUse,
                           expiresAt |-> now + expiresIn * 1000]>>
            IN /\ tokens' = toks
               /\ issued' = issued + 1
               /\ IF userEmail # <<>>
                  THEN /\ procs' = MapSet(procs, c,
                            [p EXCEPT !.pc = "refreshSave", !.saving = toks])
                       /\ UNCHANGED refreshTimer
                  ELSE /\ procs' = AfterRefresh(c, p, TRUE, toks)
                       /\ refreshTimer' = scheduleTokenRefresh(toks)
               /\ UNCHANGED userEmail
       ELSE /\ refreshTimer' = <<>>
            /\ tokens' = logoutCall.tokens
            /\ userEmail' = logoutCall.userEmail
            /\ procs' = MapSet(procs, c, [p EXCEPT !.pc = logoutCall.pc])
            /\ UNCHANGED issued
    /\ UNCHANGED <<authNotices, storedAuth, cycleCount, queuedEvents, queuedBy, dailyStats,
                   accepted>>
    /\ TrackerUnchanged
    /\ UNCHANGED outage
    /\ HbFrame

\* refreshToken: saveAuth returned; scheduleTokenRefresh(); return true
RefreshSaveReturns ==
  \E c \in DOMAIN procs :
    LET p == procs[c] IN
    /\ p.pc = "refreshSave"
    /\ storedAuth' = p.saving
    /\ refreshTimer' = scheduleTokenRefresh(tokens)
    /\ procs' = AfterRefresh(c, p, TRUE, tokens)
    /\ UNCHANGED <<authNotices, tokens, userEmail, issued, cycleCount, queuedEvents,
                   queuedBy, dailyStats, accepted>>
    /\ TrackerUnchanged
    /\ UNCHANGED outage
    /\ HbFrame

\* the popup sent LOGOUT: the message handler calls authManager.logout(),
\* which runs up to its first await
LogoutRequested ==
  /\ LogoutProc \notin DOMAIN procs
  /\ refreshTimer' = <<>>
  /\ tokens' = logoutCall.tokens
  /\ userEmail' = logoutCall.userEmail
  /\ procs' = MapSet(procs, LogoutProc, [NewProc EXCEPT !.pc = logoutCall.pc])
  /\ UNCHANGED <<authNotices, storedAuth, issued, cycleCount, queuedEvents, queuedBy,
                 dailyStats, accepted>>
  /\ TrackerUnchanged
  /\ UNCHANGED outage
  /\ HbFrame

\* logout: the fetch of the logout endpoint returned or threw
LogoutFetchReturns ==
  \E c \in DOMAIN procs :
    LET p == procs[c] IN
    /\ p.pc = "logoutFetch"
    /\ tokens' = <<>>
    /\ userEmail' = <<>>
    /\ procs' = MapSet(procs, c, [p EXCEPT !.pc = "logoutClear"])
    /\ UNCHANGED <<authNotices, refreshTimer, storedAuth, issued, cycleCount, queuedEvents,
                   queuedBy, dailyStats, accepted>>
    /\ TrackerUnchanged
    /\ UNCHANGED outage
    /\ HbFrame

\* tracker.setPaused(true) as the auth-change callback calls it
setPausedTrue(S) == IF S.isPaused THEN S ELSE pauseTracking(S)

\* logout: clearStoredAuth returned; notifyAuthChange() runs the callback
\* registered by the background worker.  refreshToken then returns false;
\* the LOGOUT handler calls tracker.setPaused(true) and answers
LogoutClearReturns ==
  \E c \in DOMAIN procs :
    LET p == procs[c]
        notified == IF ~isAuthenticated THEN setPausedTrue(Tracker)
                    ELSE Tracker
    IN
    /\ p.pc = "logoutClear"
    /\ storedAuth' = <<>>
    /\ authNotices' = authNotices + 1
    /\ IF c = LogoutProc
       THEN /\ Commit(setPausedTrue(notified))
            /\ procs' = MapSet(procs, c, Done(p))
       ELSE /\ Commit(notified)
            /\ procs' = AfterRefresh(c, p, FALSE, tokens)
    /\ UNCHANGED <<tokens, userEmail, refreshTimer, issued, cycleCount,
                   queuedEvents, queuedBy, dailyStats, accepted, outage>>
    /\ HbFrame

\* ------------------------------------------------------------------------
\* Heartbeat pipeline
\* ------------------------------------------------------------------------
\* what sendHeartbeat ships and queues for a window: the window itself, or
\* nothing when the aggregator has none
HeartbeatPayload(window) == window

\* getActivityWindow reading and emptying the buffer
afterGetActivityWindowDrained(S) == clearCurrentBuffer(S)

\* the tracker after getActivityWindow(): the method assigns no field
afterGetActivityWindow(S) == S

\* what a cycle keeps of the cycle before it: the window that cycle read, the
\* last tick before it read, and whether it has delivered
PrevCycle ==
  IF cycleCount \in DOMAIN procs /\ ~procs[cycleCount].skipped
  THEN <<[window |-> procs[cycleCount].window,
          tickAt |-> procs[cycleCount].tickAt,
          success |-> procs[cycleCount].success]>>
  ELSE <<>>

\* the heartbeat alarm fired: the listener up to the await of
\* getQueuedEvents in sendHeartbeat
AlarmFires ==
  /\ cycleCount < MaxCycles
  /\ cycleCount' = cycleCount + 1
  /\ LET c == cycleCount + 1
         window == getActivityWindow(Tracker)
         n == OutageAfter(outage.n, Cycles \ InFlight)
         from == IF n = 0 THEN ledger ELSE outage.from
         p == [NewProc EXCEPT !.window = window, !.isIdle = isIdle,
                              !.ledgerAt = ledger,
                              !.tickAt = lastTickAt, !.prev = PrevCycle,
                              !.outage = n, !.ledgerFrom = from,
                              !.events = HeartbeatPayload(window),
                              !.token = getAccessToken(tokens)]
     IN /\ outage' = [n |-> n, from |-> from]
        /\ procs' = MapSet(Running, c,
             IF ~isAuthenticated THEN Done([NewProc EXCEPT !.skipped = TRUE])
             ELSE IF p.token = 0 THEN EnqueueOrDone(p)
             ELSE [p EXCEPT !.pc = "getQueue"])
  /\ IF isAuthenticated THEN Commit(afterGetActivityWindow(Tracker))
     ELSE TrackerUnchanged
  /\ UNCHANGED <<authVars, queuedEvents, queuedBy, dailyStats, accepted>>
  /\ HbFrame

\* the alarm fires after the cycle before has returned: the alarm period
\* is longer than a delivery and its refresh take
HeartbeatAlarm ==
  /\ InFlight \cap Cycles = {}
  /\ AlarmFires

\* the alarm fires while the cycle before still awaits an answer of the
\* network: no fetch of the pipeline carries a timeout
HeartbeatAlarmLate ==
  /\ InFlight \cap Cycles # {}
  /\ \A c \in InFlight \cap Cycles : procs[c].pc \notin StoragePcs
  /\ AlarmFires

\* [...queuedEvents, ...events]
allEvents(p) == p.queued \o p.events

\* sendHeartbeat: getQueuedEvents returned; skip an empty heartbeat, else
\* POST the heartbeat
GetQueueReturns ==
  \E c \in Cycles :
    LET p == [procs[c] EXCEPT !.queued = queuedEvents,
                              !.queuedFrom = queuedBy] IN
    /\ procs[c].pc = "getQueue"
    /\ procs' = MapSet(procs, c,
         IF allEvents(p) = <<>> /\ ~p.isIdle THEN Succeeded(p)
         ELSE [p EXCEPT !.pc = "fetch", !.posts = @ + 1])
    /\ UNCHANGED <<authVars, cycleCount, queuedEvents, queuedBy, dailyStats,
                   accepted>>
    /\ TrackerUnchanged
    /\ UNCHANGED outage
    /\ HbFrame

\* the seconds of a window as the collector received them
WindowTotal(w) == TotalSeconds(w.activities)

\* the collector accepted a heartbeat carrying the windows ws: for each
\* window start it keeps the fullest snapshot it has received
RECURSIVE Accept(_, _)
Accept(acc, ws) ==
  IF ws = <<>> THEN acc
  ELSE LET w == Head(ws)
           held == IF w.windowStart \in DOMAIN acc
                   THEN acc[w.windowStart] ELSE 0
       IN Accept(MapSet(acc, w.windowStart,
                        IF WindowTotal(w) > held THEN WindowTotal(w)
                        ELSE held),
                 Tail(ws))

\* the collector accepted the POST of p, with what it carried from the queue
AcceptedBy(p) ==
  [p EXCEPT !.accepts = @ + 1,
            !.sentBy = {p.queuedFrom[i] : i \in DOMAIN p.queuedFrom}]

\* sendHeartbeat after a 2xx answer
Delivered(p) ==
  IF p.queued # <<>> THEN [p EXCEPT !.pc = "clearQueue"] ELSE Succeeded(p)

\* sendHeartbeat: the POST answered 2xx, 401 or another status, or threw
FetchResponds ==
  \E c \in Cycles, r \in {"ok", "401", "error"} :
    LET p == procs[c] IN
    /\ p.pc = "fetch"
    /\ accepted' = IF r = "ok" THEN Accept(accepted, allEvents(p))
                    ELSE accepted
    /\ procs' = MapSet(procs, c,
         CASE r = "ok" -> Delivered(AcceptedBy(p))
           [] r = "401" ->
                LET q == [p EXCEPT !.got401 = TRUE, !.refreshes = @ + 1] IN
                IF refreshTokenCall(q) = <<>> THEN EnqueueOrDone(q)
                ELSE refreshTokenCall(q)[1]
           [] OTHER -> EnqueueOrDone(p))
    /\ UNCHANGED <<authVars, cycleCount, queuedEvents, queuedBy, dailyStats>>
    /\ TrackerUnchanged
    /\ UNCHANGED outage
    /\ HbFrame

\* sendHeartbeat: the retry POST answered
RetryResponds ==
  \E c \in Cycles, ok \in BOOLEAN :
    LET p == procs[c] IN
    /\ p.pc = "retryFetch"
    /\ accepted' = IF ok THEN Accept(accepted, allEvents(p)) ELSE accepted
    /\ procs' = MapSet(procs, c,
         IF ok THEN Delivered(AcceptedBy(p))
         ELSE EnqueueOrDone(p))
    /\ UNCHANGED <<authVars, cycleCount, queuedEvents, queuedBy, dailyStats>>
    /\ TrackerUnchanged
    /\ UNCHANGED outage
    /\ HbFrame

\* sendHeartbeat: clearQueuedEvents returned; return true
ClearQueueReturns ==
  \E c \in Cycles :
    /\ procs[c].pc = "clearQueue"
    /\ queuedEvents' = <<>>
    /\ queuedBy' = <<>>
    /\ procs' = MapSet(procs, c, Succeeded(procs[c]))
    /\ UNCHANGED <<authVars, cycleCount, dailyStats, accepted>>
    /\ TrackerUnchanged
    /\ UNCHANGED outage
    /\ HbFrame

\* addQueuedEvents: getQueuedEvents returned
EnqueueRead ==
  \E c \in Cycles :
    /\ procs[c].pc = "enqueueRead"
    /\ procs' = MapSet(procs, c, [procs[c] EXCEPT !.pc = "enqueueWrite",
                                                  !.existing = queuedEvents,
                                                  !.existingFrom = queuedBy])
    /\ UNCHANGED <<authVars, cycleCount, queuedEvents, queuedBy, dailyStats,
                   accepted>>
    /\ TrackerUnchanged
    /\ UNCHANGED outage
    /\ HbFrame

\* addQueuedEvents: storage.local.set({queuedEvents: combined}); sendHeartbeat
\* returns false
EnqueueWrite ==
  \E c \in Cycles :
    /\ procs[c].pc = "enqueueWrite"
    /\ queuedEvents' = procs[c].existing \o procs[c].events
    /\ queuedBy' = procs[c].existingFrom
                     \o [i \in DOMAIN procs[c].events |-> c]
    /\ procs' = MapSet(procs, c, Done(procs[c]))
    /\ UNCHANGED <<authVars, cycleCount, dailyStats, accepted>>
    /\ TrackerUnchanged
    /\ UNCHANGED outage
    /\ HbFrame

\* updateStatsFromWindow: getDailyStats returned
StatsRead ==
  \E c \in Cycles :
    /\ procs[c].pc = "statsRead"
    /\ procs' = MapSet(procs, c, [procs[c] EXCEPT !.pc = "statsWrite",
                                                  !.stats = dailyStats])
    /\ UNCHANGED <<authVars, cycleCount, queuedEvents, queuedBy, dailyStats,
                   accepted>>
    /\ TrackerUnchanged
    /\ UNCHANGED outage
    /\ HbFrame

EmptyDomainStat == [activeTime |-> 0, backgroundTime |-> 0, visits |-> 0]

\* the loop of updateStatsFromWindow adding seconds where the statistics
\* hold milliseconds
foldWindowSeconds(stats, activities) ==
  [d \in (DOMAIN stats) \cup (DOMAIN activities) |->
     LET st == IF d \in DOMAIN stats THEN stats[d] ELSE EmptyDomainStat IN
     IF d \notin DOMAIN activities THEN st
     ELSE [activeTime |-> st.activeTime + activities[d].activeSeconds,
           backgroundTime |->
             st.backgroundTime + activities[d].backgroundSeconds,
           visits |-> st.visits + 1]]

\* the loop of updateStatsFromWindow over window.activities
foldWindow(stats, activities) ==
  [d \in (DOMAIN stats) \cup (DOMAIN activities) |->
     LET st == IF d \in DOMAIN stats THEN stats[d] ELSE EmptyDomainStat IN
     IF d \notin DOMAIN activities THEN st
     ELSE [activeTime |-> st.activeTime + activities[d].activeSeconds * 1000,
           backgroundTime |->
             st.backgroundTime + activities[d].backgroundSeconds * 1000,
           visits |-> st.visits + 1]]

\* updateStatsFromWindow: saveDailyStats returned; the listener then calls
\* tracker.clearCurrentBuffer()
StatsWrite ==
  \E c \in Cycles :
    /\ procs[c].pc = "statsWrite"
    /\ dailyStats' = foldWindow(procs[c].stats, procs[c].window[1].activities)
    /\ Commit(clearCurrentBuffer(Tracker))
    /\ procs' = MapSet(procs, c, Done(procs[c]))
    /\ UNCHANGED <<authVars, cycleCount, queuedEvents, queuedBy, accepted,
                   outage>>
    /\ HbFrame

\* the worker running with tab 1 tracked as the active tab and one second
\* attributed to its domain, two seconds before a window boundary, with an
\* access token about to need its refresh
HbStartTimes == {298000}

HbTokenLifetimes == {61000}

InitHb ==
  /\ now \in HbStartTimes
  /\ \E life \in HbTokenLifetimes : InitPipeline(now, now + life)
  /\ ledger = MapSet(EmptyMap, roundToWindowBoundary(now), 1)
  /\ clockSteps = 0
  /\ events = 0
  /\ hostTabs = Tabs
  /\ hostUrl = [t \in Tabs |-> IF t = 1 THEN UrlA1 ELSE UrlB1]
  /\ hostActive = 1
  /\ hostFocus = "normal"
  /\ hostAudible = {}
  /\ hostIdle = FALSE
  /\ activeTab = <<[tabId |-> 1, domain |-> extractDomain(UrlA1),
                    url |-> UrlA1, isBackground |-> FALSE,
                    startTime |-> now - TICK_INTERVAL_MS,
                    isTracking |-> TRUE]>>
  /\ backgroundTabs = EmptyMap
  /\ visibleTabs = {}
  /\ audibleTabs = {}
  /\ videoPlayingTabs = {}
  /\ isIdle = FALSE
  /\ isPaused = FALSE
  /\ settings = [blocklist |-> {}, trackFullUrlDomains |-> {}]
  /\ pendingStarts = EmptyMap
  /\ timers = {}
  /\ activityBuffer =
       [windowStart |-> roundToWindowBoundary(now),
        domains |-> addActiveSeconds(EmptyMap, extractDomain(UrlA1), 1)]
  /\ lastTickAt = now
  /\ inflight = {}
  /\ visitStart = now
  /\ shortLeftAt = [t \in Tabs |-> -1]
  /\ lastVisit = [tab |-> 1, start |-> visitStart, end |-> -1, seconds |-> 0]
  /\ resumedAt = <<>>
  /\ OneInitializeRun

\* the clock of the pipeline's runs, where the ticker misses no callback
HbAdvance ==
  /\ clockSteps < MaxHbClockSteps
  /\ ClockStep(0)

NextHb ==
  \/ HbAdvance
  \/ Tick
  \/ HeartbeatAlarm
  \/ GetQueueReturns
  \/ FetchResponds
  \/ RetryResponds
  \/ ClearQueueReturns
  \/ EnqueueRead
  \/ EnqueueWrite
  \/ StatsRead
  \/ StatsWrite
  \/ RefreshTimerFires
  \/ RefreshResponds
  \/ RefreshSaveReturns
  \/ LogoutFetchReturns
  \/ LogoutClearReturns

SpecHb == InitHb /\ [][NextHb]_vars

\* the alarm of the short pipeline, which rings MaxCyclesShort times
HeartbeatAlarmShort ==
  /\ cycleCount < MaxCyclesShort
  /\ HeartbeatAlarm

\* the pipeline with fewer alarms: the same handlers under every
\* interleaving, in a state space that stays small when the bounds grow
NextHbShort ==
  \/ HbAdvance
  \/ Tick
  \/ HeartbeatAlarmShort
  \/ GetQueueReturns
  \/ FetchResponds
  \/ RetryResponds
  \/ ClearQueueReturns
  \/ EnqueueRead
  \/ EnqueueWrite
  \/ StatsRead
  \/ StatsWrite
  \/ RefreshTimerFires
  \/ RefreshResponds
  \/ RefreshSaveReturns
  \/ LogoutFetchReturns
  \/ LogoutClearReturns

SpecHbShort == InitHb /\ [][NextHbShort]_vars

\* the pipeline with a user who may sign out from the popup
NextAuth ==
  \/ HbAdvance
  \/ Tick
  \/ HeartbeatAlarm
  \/ GetQueueReturns
  \/ FetchResponds
  \/ RetryResponds
  \/ ClearQueueReturns
  \/ EnqueueRead
  \/ EnqueueWrite
  \/ StatsRead
  \/ StatsWrite
  \/ RefreshTimerFires
  \/ RefreshResponds
  \/ RefreshSaveReturns
  \/ LogoutRequested
  \/ LogoutFetchReturns
  \/ LogoutClearReturns

SpecAuth == InitHb /\ [][NextAuth]_vars

\* the worker running with one second attributed to the domain of tab 1 and
\* the user idle since: handleIdleStateChanged has ended the record of tab 1
InitHbIdle ==
  /\ now \in HbStartTimes
  /\ \E life \in HbTokenLifetimes : InitPipeline(now, now + life)
  /\ ledger = MapSet(EmptyMap, roundToWindowBoundary(now), 1)
  /\ clockSteps = 0
  /\ events = 0
  /\ hostTabs = Tabs
  /\ hostUrl = [t \in Tabs |-> IF t = 1 THEN UrlA1 ELSE UrlB1]
  /\ hostActive = 1
  /\ hostFocus = "normal"
  /\ hostAudible = {}
  /\ hostIdle = TRUE
  /\ activeTab = <<>>
  /\ backgroundTabs = EmptyMap
  /\ visibleTabs = {}
  /\ audibleTabs = {}
  /\ videoPlayingTabs = {}
  /\ isIdle = TRUE
  /\ isPaused = FALSE
  /\ settings = [blocklist |-> {}, trackFullUrlDomains |-> {}]
  /\ pendingStarts = EmptyMap
  /\ timers = {}
  /\ activityBuffer =
       [windowStart |-> roundToWindowBoundary(now),
        domains |-> addActiveSeconds(EmptyMap, extractDomain(UrlA1), 1)]
  /\ lastTickAt = now
  /\ inflight = {}
  /\ visitStart = now
  /\ shortLeftAt = [t \in Tabs |-> -1]
  /\ lastVisit = [tab |-> 1, start |-> visitStart, end |-> -1, seconds |-> 1]
  /\ resumedAt = <<>>
  /\ OneInitializeRun

\* the alarm of the short pipeline rings while the cycle before awaits the
\* network
HeartbeatAlarmLateShort ==
  /\ cycleCount < MaxCyclesShort
  /\ HeartbeatAlarmLate

\* the short pipeline of an idle user over a network slow enough for
\* heartbeat cycles to overlap
NextLateStats ==
  \/ HbAdvance
  \/ Tick
  \/ HeartbeatAlarmShort
  \/ HeartbeatAlarmLateShort
  \/ GetQueueReturns
  \/ FetchResponds
  \/ RetryResponds
  \/ ClearQueueReturns
  \/ EnqueueRead
  \/ EnqueueWrite
  \/ StatsRead
  \/ StatsWrite
  \/ RefreshTimerFires
  \/ RefreshResponds
  \/ RefreshSaveReturns
  \/ LogoutFetchReturns
  \/ LogoutClearReturns

SpecLateStats == InitHbIdle /\ [][NextLateStats]_vars

\* the pipeline over a network slow enough for heartbeat cycles to overlap,
\* while the window stays the same: what the ticker and the refresh timer do
\* between the alarms is left out
NextLate ==
  \/ HeartbeatAlarm
  \/ HeartbeatAlarmLate
  \/ GetQueueReturns
  \/ FetchResponds
  \/ RetryResponds
  \/ ClearQueueReturns
  \/ EnqueueRead
  \/ EnqueueWrite
  \/ RefreshResponds
  \/ RefreshSaveReturns
  \/ LogoutFetchReturns
  \/ LogoutClearReturns

SpecLate == InitHb /\ [][NextLate]_vars

\* ------------------------------------------------------------------------
\* Background worker: the runs of initialize()
\* ------------------------------------------------------------------------
\* number of clock steps in one start of the worker
MaxWorkerClockSteps == 2

\* initRuns is keyed by the caller of initialize(): "start" for the last
\* line of the worker's script, "installed" and "startup" for the listeners
\* of runtime.onInstalled and runtime.onStartup.
\* A run of initialize() has returned from initializeCurrentState and goes
\* on without yielding
RunReady ==
  \E r \in DOMAIN initRuns : initRuns[r] = "current" /\ inflight = {}

WorkerFrame ==
  UNCHANGED <<now, clockSteps, events, hostVars, historyVars, pipelineVars,
              issued, authNotices, storedAuth>>

\* the worker's script has been evaluated on a fresh profile: nothing is
\* stored, the tracker and the auth manager are as constructed, and the
\* initialize() of the script's last line awaits authManager.initialize()
InitWorker ==
  /\ now \in StartTimes
  /\ clockSteps = 0
  /\ events = 0
  /\ hostTabs = Tabs
  /\ hostUrl = [t \in Tabs |-> IF t = 1 THEN UrlA1 ELSE UrlB1]
  /\ hostActive = 1
  /\ hostFocus = "normal"
  /\ hostAudible = {}
  /\ hostIdle = FALSE
  /\ activeTab = <<>>
  /\ backgroundTabs = EmptyMap
  /\ visibleTabs = {}
  /\ audibleTabs = {}
  /\ videoPlayingTabs = {}
  /\ isIdle = FALSE
  /\ isPaused = FALSE
  /\ settings = [blocklist |-> {}, trackFullUrlDomains |-> {}]
  /\ pendingStarts = EmptyMap
  /\ timers = {}
  /\ activityBuffer = [windowStart |-> roundToWindowBoundary(now),
                       domains |-> EmptyMap]
  /\ lastTickAt = now
  /\ inflight = {}
  /\ visitStart = now - DEBOUNCE_THRESHOLD_MS
  /\ shortLeftAt = [t \in Tabs |-> -1]
  /\ lastVisit = [tab |-> hostActive, start |-> visitStart, end |-> -1,
                  seconds |-> 0]
  /\ resumedAt = <<>>
  /\ initRuns = MapSet(EmptyMap, "start", "authInit")
  /\ listeners = 0
  /\ authCallbacks = 0
  /\ tickIntervals = 0
  /\ tokens = <<>>
  /\ userEmail = <<>>
  /\ refreshTimer = <<>>
  /\ storedAuth = <<>>
  /\ issued = 0
  /\ authNotices = 0
  /\ procs = EmptyMap
  /\ cycleCount = 0
  /\ queuedEvents = <<>>
  /\ queuedBy = <<>>
  /\ dailyStats = EmptyMap
  /\ accepted = EmptyMap
  /\ ledger = EmptyMap
  /\ outage = [n |-> 0, from |-> EmptyMap]

\* runtime.onInstalled: on 'install' the listener awaits saveSettings of the
\* default settings, then it calls initialize()
OnInstalled ==
  \E reason \in {"install", "update"} :
    /\ "installed" \notin DOMAIN initRuns
    /\ ~RunReady
    /\ initRuns' = MapSet(initRuns, "installed",
                          IF reason = "install" THEN "saveSettings"
                          ELSE "authInit")
    /\ UNCHANGED <<listeners, authCallbacks, tickIntervals, trackerVars,
                   inflight, tokens, userEmail, refreshTimer>>
    /\ WorkerFrame

\* runtime.onStartup: the listener calls initialize()
OnStartup ==
  /\ "startup" \notin DOMAIN initRuns
  /\ ~RunReady
  /\ initRuns' = MapSet(initRuns, "startup", "authInit")
  /\ UNCHANGED <<listeners, authCallbacks, tickIntervals, trackerVars,
                 inflight, tokens, userEmail, refreshTimer>>
  /\ WorkerFrame

\* the saveSettings of the onInstalled listener returned; a registered
\* storage.onChanged listener of the tracker takes the settings over
SaveSettingsReturns ==
  \E r \in DOMAIN initRuns :
    /\ initRuns[r] = "saveSettings"
    /\ ~RunReady
    /\ initRuns' = MapSet(initRuns, r, "authInit")
    /\ Commit(IF listeners > 0
              THEN [Tracker EXCEPT !.settings =
                      [blocklist |-> {}, trackFullUrlDomains |-> {}]]
              ELSE Tracker)
    /\ UNCHANGED <<listeners, authCallbacks, tickIntervals, inflight, tokens,
                   userEmail, refreshTimer>>
    /\ WorkerFrame

\* authManager.initialize(): loadStoredAuth read the storage; stored tokens
\* that are still valid are taken over and scheduleTokenRefresh() runs.
\* The refresh of stored tokens that have expired is not followed
AuthInitReturns ==
  \E r \in DOMAIN initRuns :
    LET loaded == storedAuth # <<>>
        toks == IF loaded THEN storedAuth ELSE tokens
    IN
    /\ initRuns[r] = "authInit"
    /\ ~RunReady
    /\ IF storedAuth = <<>> THEN TRUE ELSE storedAuth[1].expiresAt > now
    /\ initRuns' = MapSet(initRuns, r, "trackerLoad")
    /\ tokens' = toks
    /\ userEmail' = IF loaded THEN <<"user">> ELSE userEmail
    /\ refreshTimer' = IF toks # <<>> THEN scheduleTokenRefresh(toks)
                       ELSE refreshTimer
    /\ UNCHANGED <<listeners, authCallbacks, tickIntervals, trackerVars,
                   inflight>>
    /\ WorkerFrame

\* tracker.initialize(): getSettings, getTrackerState, saveTrackerState and
\* loadOrCreateBuffer returned, the storage holding the settings and the
\* pause flag the tracker has and no buffer; setupEventListeners() adds its
\* listeners and initializeCurrentState() runs up to its first host call
TrackerLoadReturns ==
  \E r \in DOMAIN initRuns :
    /\ initRuns[r] = "trackerLoad"
    /\ ~RunReady
    /\ CanSuspend
    /\ initRuns' = MapSet(initRuns, r, "current")
    /\ Commit(createNewBuffer(Tracker))
    /\ listeners' = listeners + 1
    /\ Suspend(InitHandler)
    /\ UNCHANGED <<authCallbacks, tickIntervals, tokens, userEmail,
                   refreshTimer>>
    /\ WorkerFrame

\* tracker.initialize(): initializeCurrentState returned; startTicker()
\* clears the interval it holds and sets a new one; the worker's
\* initialize() then awaits alarms.create
InitCurrentReturns ==
  \E r \in DOMAIN initRuns :
    /\ initRuns[r] = "current"
    /\ inflight = {}
    /\ initRuns' = MapSet(initRuns, r, "alarm")
    /\ tickIntervals' = (IF tickIntervals > 0 THEN tickIntervals - 1 ELSE 0)
                          + 1
    /\ Commit([Tracker EXCEPT !.lastTickAt = now])
    /\ UNCHANGED <<listeners, authCallbacks, inflight, tokens, userEmail,
                   refreshTimer>>
    /\ WorkerFrame

\* initialize(): alarms.create returned; authManager.onAuthChange(callback)
\* pushes the callback
AlarmCreated ==
  \E r \in DOMAIN initRuns :
    /\ initRuns[r] = "alarm"
    /\ ~RunReady
    /\ initRuns' = MapSet(initRuns, r, "done")
    /\ authCallbacks' = authCallbacks + 1
    /\ UNCHANGED <<listeners, tickIntervals, trackerVars, inflight, tokens,
                   userEmail, refreshTimer>>
    /\ WorkerFrame

\* the callback of a live interval
WorkerTick ==
  /\ tickIntervals > 0
  /\ ~RunReady
  /\ Tick

\* the clock of a starting worker: the awaits of its runs return within
\* the second
WorkerAdvance ==
  /\ clockSteps < MaxWorkerClockSteps
  /\ \A r \in DOMAIN initRuns : initRuns[r] = "done"
  /\ ClockStep(MaxMissedTicks)

NextWorker ==
  \/ OnInstalled
  \/ OnStartup
  \/ SaveSettingsReturns
  \/ AuthInitReturns
  \/ TrackerLoadReturns
  \/ InitActiveTab
  \/ TabActivatedWindow
  \/ TabActivatedTab
  \/ InitAudible
  \/ InitIdle
  \/ InitCurrentReturns
  \/ AlarmCreated
  \/ WorkerTick
  \/ WorkerAdvance

SpecWorker == InitWorker /\ [][NextWorker]_vars

\* ------------------------------------------------------------------------
\* The ticker under a busy event loop
\* ------------------------------------------------------------------------
\* number of callbacks of the ticker in one behaviour
MaxJitterSteps == 12

\* the time from one callback of setInterval(..., TICK_INTERVAL_MS) to the
\* next: on time, or held up by half a second
TickDelays == {TICK_INTERVAL_MS, TICK_INTERVAL_MS + 500}

\* the worker running with tab 1 confirmed as the active tab one second ago
\* and that second attributed by the tick that has just run
InitJitter ==
  /\ now \in HbStartTimes
  /\ InitPipeline(now, now + 3600000)
  /\ ledger = MapSet(EmptyMap, roundToWindowBoundary(now), 1)
  /\ clockSteps = 0
  /\ events = 0
  /\ hostTabs = Tabs
  /\ hostUrl = [t \in Tabs |-> IF t = 1 THEN UrlA1 ELSE UrlB1]
  /\ hostActive = 1
  /\ hostFocus = "normal"
  /\ hostAudible = {}
  /\ hostIdle = FALSE
  /\ activeTab = <<[tabId |-> 1, domain |-> extractDomain(UrlA1),
                    url |-> UrlA1, isBackground |-> FALSE,
                    startTime |-> now - TICK_INTERVAL_MS,
                    isTracking |-> TRUE]>>
  /\ backgroundTabs = EmptyMap
  /\ visibleTabs = {}
  /\ audibleTabs = {}
  /\ videoPlayingTabs = {}
  /\ isIdle = FALSE
  /\ isPaused = FALSE
  /\ settings = [blocklist |-> {}, trackFullUrlDomains |-> {}]
  /\ pendingStarts = EmptyMap
  /\ timers = {}
  /\ activityBuffer =
       [windowStart |-> roundToWindowBoundary(now),
        domains |-> addActiveSeconds(EmptyMap, extractDomain(UrlA1), 1)]
  /\ lastTickAt = now
  /\ inflight = {}
  /\ visitStart = now
  /\ shortLeftAt = [t \in Tabs |-> -1]
  /\ lastVisit = [tab |-> 1, start |-> visitStart, end |-> -1, seconds |-> 0]
  /\ resumedAt = <<>>
  /\ OneInitializeRun

\* the time passes until the ticker's next callback is run
JitterAdvance ==
  /\ clockSteps < MaxJitterSteps
  /\ now = lastTickAt
  /\ \E d \in TickDelays : now' = now + d
  /\ clockSteps' = clockSteps + 1
  /\ UNCHANGED <<events, hostVars, trackerVars, inflight, historyVars,
                 workerVars, hbVars>>

NextJitter ==
  \/ JitterAdvance
  \/ Tick

SpecJitter == InitJitter /\ [][NextJitter]_vars

\* ------------------------------------------------------------------------
\* Properties
\* ------------------------------------------------------------------------
\* the debounce timer tm fires in this step and confirms an active start
ConfirmsActive(tm) ==
  /\ ~tm.isBackground
  /\ now >= tm.due
  /\ tm \notin timers'
  /\ activeTab' # <<>>
  /\ activeTab' # activeTab
  /\ activeTab'[1].tabId = tm.tabId
  /\ activeTab'[1].startTime = now

\* C1: a visit shorter than the debounce threshold that the user has left
\* never produces a TabRecord: no timer armed before the user left the tab
\* after a short visit confirms an active start for that tab
C1_ShortVisitNeverTracked ==
  [][\A tm \in timers :
       ConfirmsActive(tm) =>
         shortLeftAt[tm.tabId] < tm.due - DEBOUNCE_THRESHOLD_MS]_vars

\* the live debounce timers and the pending confirmations correspond one to
\* one, at most one of each per tab
OnePendingPerTab ==
  /\ \A t1 \in timers, t2 \in timers : t1.tabId = t2.tabId => t1 = t2
  /\ \A tm \in timers :
       /\ tm.tabId \in DOMAIN pendingStarts
       /\ pendingStarts[tm.tabId].timeoutId = tm.id
  /\ \A t \in DOMAIN pendingStarts :
       \E tm \in timers : tm.id = pendingStarts[t].timeoutId /\ tm.tabId = t

\* the debounce timer tm fires in this step
Fires(tm) ==
  /\ now >= tm.due
  /\ tm \notin timers'
  /\ tm.tabId \notin DOMAIN pendingStarts'
  /\ \/ /\ ~tm.isBackground
        /\ activeTab' # <<>> /\ activeTab'[1].tabId = tm.tabId
        /\ activeTab'[1].startTime = now /\ activeTab' # activeTab
     \/ /\ tm.isBackground
        /\ tm.tabId \in DOMAIN backgroundTabs'
        /\ backgroundTabs'[tm.tabId].startTime = now
        /\ backgroundTabs' # backgroundTabs

TickRotates ==
  /\ lastTickAt' # lastTickAt
  /\ DOMAIN activityBuffer.domains # {}
  /\ activityBuffer.windowStart # roundToWindowBoundary(now)
  /\ activityBuffer' # activityBuffer

\* C4: after a tick has rotated the window, the old window is still what the
\* aggregator hands out, final and with every second it had accumulated
C4_OldWindowRetrievable ==
  [][TickRotates =>
       (/\ getActivityWindow(Tracker) # <<>>
        /\ getActivityWindow(Tracker)[1].windowStart
             = activityBuffer.windowStart
        /\ getActivityWindow(Tracker)[1].isFinal
        /\ getActivityWindow(Tracker)[1].activities
             = activityBuffer.domains)']_vars

TrackedCount ==
  (IF activeTab # <<>> /\ activeTab[1].isTracking THEN 1 ELSE 0)
    + Cardinality({t \in DOMAIN backgroundTabs : backgroundTabs[t].isTracking})

C6_DomainWithinWallClock ==
  \A d \in DOMAIN activityBuffer.domains :
    (activityBuffer.domains[d].activeSeconds
       + activityBuffer.domains[d].backgroundSeconds) * 1000
      <= now - activityBuffer.windowStart

\* cycle c takes a step: its alarm fires or one of its awaits returns
CycleStep(c) ==
  /\ c \in DOMAIN procs'
  /\ c \notin DOMAIN procs \/ procs'[c] # procs[c]

\* what the listener's condition for clearing the buffer reads
DeliveredFinal(p) == p.success /\ p.window # <<>> /\ p.window[1].isFinal

\* C7: every step of a heartbeat cycle that is skipped, fails, or delivers
\* a window that is not final leaves the aggregator's window as it is
C7_UndeliveredWindowKept ==
  [][\A c \in 1..MaxCycles :
       (CycleStep(c) /\ ~DeliveredFinal(procs'[c]))
         => activityBuffer' = activityBuffer]_vars

\* a cycle got 401, could not refresh and gave up while the window it had
\* read holds seconds
C7_Witness ==
  \E c \in Cycles :
    /\ procs[c].pc = "done"
    /\ procs[c].got401
    /\ ~procs[c].success
    /\ procs[c].window # <<>>
    /\ activityBuffer.windowStart = procs[c].window[1].windowStart
    /\ DOMAIN activityBuffer.domains # {}

\* the windows that were attributed seconds between the alarm of the first
\* failed cycle of the run before p and the alarm of p
AttributedDuringOutage(p) ==
  {w \in DOMAIN p.ledgerAt :
     w \notin DOMAIN p.ledgerFrom \/ p.ledgerAt[w] > p.ledgerFrom[w]}

\* C8: when a cycle delivers after two or more cycles in a row failed to
\* deliver, the collector holds, for every window that was attributed
\* seconds during the outage, all the seconds attributed to it up to the
\* alarm of the delivering cycle
C8_RecoveryDeliversOutage ==
  \A c \in Cycles :
    (/\ procs[c].pc = "done"
     /\ procs[c].success
     /\ procs[c].accepts > 0
     /\ procs[c].outage >= 2)
      => \A w \in AttributedDuringOutage(procs[c]) :
           /\ w \in DOMAIN accepted
           /\ accepted[w] >= procs[c].ledgerAt[w]

\* the outcome of a cycle that got 401
After401(p) ==
  /\ p.refreshes = 1
  /\ p.refreshed => p.posts = 2
  /\ ~p.refreshed => p.posts = 1 /\ ~p.success
  /\ p.success =>
       /\ p.accepts = 1
       /\ \A i \in DOMAIN queuedEvents, j \in DOMAIN p.events :
            queuedEvents[i] # p.events[j]
  /\ ~p.success => p.accepts = 0

\* C9: a cycle that got 401 requests one refresh; after a successful refresh
\* it retries once, and a successful retry leaves the payload accepted once
\* and not in the queue; after a failed refresh or retry it makes no further
\* attempt and nothing of it is accepted
C9_OneRefreshOneRetry ==
  \A c \in Cycles :
    /\ procs[c].refreshes <= 1
    /\ procs[c].posts <= 2
    /\ (procs[c].pc = "done" /\ procs[c].got401) => After401(procs[c])

\* a cycle got 401, refreshed, retried and delivered
C9_Witness ==
  \E c \in Cycles :
    /\ procs[c].pc = "done"
    /\ procs[c].got401
    /\ procs[c].refreshed
    /\ procs[c].success
    /\ procs[c].events # <<>>

\* C10: at most one request to the refresh endpoint is in flight
C10_SingleRefreshInFlight ==
  Cardinality({c \in DOMAIN procs : procs[c].pc = "refreshFetch"}) <= 1

\* the logout() the LOGOUT message started has completed
LoggedOut ==
  /\ LogoutProc \in DOMAIN procs
  /\ procs[LogoutProc].pc = "done"

\* C11: once logout() has completed, no token record is held in memory
\* or in storage and no refresh timer is live (no login follows in these
\* behaviours), also when a refresh was in flight when logout started
C11_LogoutClearsForGood ==
  LoggedOut => /\ tokens = <<>>
               /\ storedAuth = <<>>
               /\ refreshTimer = <<>>

\* no TabRecord exists in the next state
NoTabRecordNext ==
  /\ activeTab' = <<>>
  /\ backgroundTabs' = EmptyMap

\* C12: the step by which the tracker becomes idle ends active and all
\* background tracking and cancels every pending confirmation timer, and
\* as long as the tracker stays idle no TabRecord exists and no
\* confirmation fires
C12_IdleHoldsNoRecord ==
  [][/\ (~isIdle /\ isIdle' /\ hostIdle' # hostIdle) =>
          /\ NoTabRecordNext
          /\ timers' = {}
          /\ pendingStarts' = EmptyMap
     /\ (isIdle /\ isIdle') =>
          /\ NoTabRecordNext
          /\ \A tm \in timers : ~Fires(tm)]_vars

\* C13: when no handler is under way, an active TabRecord is that of the
\* focused tab of the focused browser window (the extension's popup counts
\* as the browser window), and it was installed no sooner than the debounce
\* threshold after that tab gained the focus
C13_ActiveIsFocusedDebounced ==
  (activeTab # <<>> /\ inflight = {}) =>
    /\ hostFocus # "none"
    /\ hostActive = activeTab[1].tabId
    /\ visitStart <= activeTab[1].startTime - DEBOUNCE_THRESHOLD_MS

\* a tick runs in this step and attributes seconds
TickAttributes ==
  /\ lastTickAt' # lastTickAt
  /\ TotalSeconds(activityBuffer'.domains)
       > (IF activityBuffer'.windowStart = activityBuffer.windowStart
          THEN TotalSeconds(activityBuffer.domains) ELSE 0)

\* C14: the seconds a tick attributes at time t go into the window whose
\* windowStart is floor(t / 5 min) * 5 min, whatever events came before
C14_TickAttributesToBucket ==
  [][TickAttributes =>
       activityBuffer'.windowStart
         = (now \div WINDOW_DURATION_MS) * WINDOW_DURATION_MS]_vars

\* the window boundary was crossed and two ticks of the new bucket have
\* attributed to the window that begins at it
C14_Witness ==
  /\ lastTickAt = now
  /\ activityBuffer.windowStart > 0
  /\ activityBuffer.windowStart
       = (now \div WINDOW_DURATION_MS) * WINDOW_DURATION_MS
  /\ TotalSeconds(activityBuffer.domains) >= 2

\* C15: no queued event is accepted by the collector from two heartbeats:
\* two cycles whose POST was accepted carried no queued event in common
C15_QueuedAcceptedOnce ==
  \A c1 \in Cycles, c2 \in Cycles :
    c1 # c2 => procs[c1].sentBy \cap procs[c2].sentBy = {}

\* C16: no TabRecord, active or background, is held for a domain that
\* matches the blocklist in force
C16_NoRecordForBlockedDomain ==
  /\ activeTab # <<>> =>
       ~isDomainBlocked(activeTab[1].domain, settings.blocklist)
  /\ \A t \in DOMAIN backgroundTabs :
       ~isDomainBlocked(backgroundTabs[t].domain, settings.blocklist)

\* cycle c and the cycle before it read a non-final window with no tick
\* between the two reads
ReadTwice(p) ==
  /\ ~p.skipped
  /\ p.prev # <<>>
  /\ p.prev[1].window # <<>>
  /\ ~p.prev[1].window[1].isFinal
  /\ p.prev[1].tickAt = p.tickAt
  /\ p.window = <<>> \/ ~p.window[1].isFinal

SevenSecondVisitEnded ==
  /\ lastVisit.tab # 0
  /\ lastVisit.end - lastVisit.start = 7000
  /\ hostFocus = "none"
  /\ inflight = {}
  /\ activeTab = <<>>
  /\ lastVisit.tab \in hostTabs
  /\ isTrackableUrl(hostUrl[lastVisit.tab])
  /\ ~isDomainBlocked(extractDomain(hostUrl[lastVisit.tab]),
                      settings.blocklist)

\* C18: a visit of 7 s leaves exactly 2 s of active time attributed to the
\* visited tab's domain
C18_SevenSecondsGiveTwo ==
  SevenSecondVisitEnded => lastVisit.seconds = 2

\* C19: a tab that has a confirmed TabRecord, active or background, has no
\* pending confirmation of the same kind
C19_NoPendingForConfirmed ==
  /\ (activeTab # <<>> /\ activeTab[1].tabId \in DOMAIN pendingStarts)
       => pendingStarts[activeTab[1].tabId].isBackground
  /\ \A t \in DOMAIN backgroundTabs :
       t \in DOMAIN pendingStarts => ~pendingStarts[t].isBackground

\* tab 1 was tracked as the active tab, seconds were attributed to it, and
\* it then navigated to another domain: its record is gone and an active
\* start for the new domain is pending
C19_Witness ==
  /\ ledger # EmptyMap
  /\ activeTab = <<>>
  /\ 1 \in DOMAIN pendingStarts
  /\ ~pendingStarts[1].isBackground
  /\ pendingStarts[1].domain # extractDomain(UrlA1)

\* the daily statistics of a domain, zero when it has none yet
StatOf(stats, d) ==
  IF d \in DOMAIN stats THEN stats[d]
  ELSE [activeTime |-> 0, backgroundTime |-> 0, visits |-> 0]

\* the step adds the seconds of the window w to the stored daily statistics
\* and leaves the buffer a fresh empty window of the current bucket
FoldsAndClears(w) ==
  /\ \A d \in DOMAIN w.activities :
       /\ d \in DOMAIN dailyStats'
       /\ dailyStats'[d].activeTime
            = StatOf(dailyStats, d).activeTime
                + w.activities[d].activeSeconds * 1000
       /\ dailyStats'[d].backgroundTime
            = StatOf(dailyStats, d).backgroundTime
                + w.activities[d].backgroundSeconds * 1000
  /\ \A d \in DOMAIN dailyStats' \ DOMAIN w.activities :
       d \in DOMAIN dailyStats /\ dailyStats'[d] = dailyStats[d]
  /\ activityBuffer'.domains = EmptyMap
  /\ activityBuffer'.windowStart
       = (now \div WINDOW_DURATION_MS) * WINDOW_DURATION_MS

InitCompletes == \E hd \in inflight : hd.h = "init3" /\ hd \notin inflight'

\* tab t shows a trackable URL of a domain that is not blocked
TrackableTab(t) ==
  /\ isTrackableUrl(hostUrl[t])
  /\ ~isDomainBlocked(extractDomain(hostUrl[t]), settings.blocklist)

HasSignal(t) ==
  t \in visibleTabs \/ t \in audibleTabs \/ t \in videoPlayingTabs

\* the focused tab is armed or tracked as active, and every other tab with a
\* signal is armed or tracked as background
ReDerived ==
  /\ (hostFocus = "normal" /\ hostActive \in hostTabs
        /\ TrackableTab(hostActive))
       => \/ /\ hostActive \in DOMAIN pendingStarts
             /\ ~pendingStarts[hostActive].isBackground
          \/ activeTab # <<>> /\ activeTab[1].tabId = hostActive
  /\ \A t \in hostTabs :
       (t # FocusedTab /\ HasSignal(t) /\ TrackableTab(t))
         => \/ t \in DOMAIN pendingStarts /\ pendingStarts[t].isBackground
            \/ t \in DOMAIN backgroundTabs

\* C21: when initializeCurrentState has run on idle-exit or on resume and
\* the tracker is neither idle nor paused, the focused tab is armed as
\* active and every other trackable tab that is visible, audible or playing
\* video is armed as background
C21_ResumeReDerives ==
  [][(InitCompletes /\ ~isIdle' /\ ~isPaused') => ReDerived']_vars

\* C22: while the tracker is paused the pending map is empty, no debounce
\* timer is live and neither an active nor a background TabRecord exists
C22_PausedHoldsNothing ==
  isPaused =>
    /\ pendingStarts = EmptyMap
    /\ timers = {}
    /\ activeTab = <<>>
    /\ backgroundTabs = EmptyMap

\* the tab a handler resumed for is gone, or the tracker is paused or idle
StaleSituation(hd) == isPaused \/ isIdle \/ hd.tabId \notin hostTabs

\* nothing is armed and no TabRecord is created by the step
NothingStarted ==
  /\ \A t \in DOMAIN pendingStarts' :
       t \in DOMAIN pendingStarts /\ pendingStarts'[t] = pendingStarts[t]
  /\ activeTab' = <<>> \/ activeTab' = activeTab
  /\ \A t \in DOMAIN backgroundTabs' :
       t \in DOMAIN backgroundTabs /\ backgroundTabs'[t] = backgroundTabs[t]

\* C23: when handleTabActivated or a signal handler resumes from its host
\* query for a tab while the tracker is paused or idle or after the tab was
\* removed, or handleTabActivated resumes for a tab that is no longer the
\* browser's active tab, the continuation arms no pending confirmation and
\* creates no TabRecord
C23_ContinuationRevalidates ==
  [][\A hd \in inflight :
       (/\ hd.h \in {"activated2", "signal"}
        /\ hd \notin inflight'
        /\ \/ StaleSituation(hd)
           \/ hd.h = "activated2" /\ hd.tabId # hostActive)
         => NothingStarted]_vars

\* handleWindowFocusChanged(WINDOW_ID_NONE) completes for a real loss of focus
FocusLossHandled ==
  /\ hostFocus = "none"
  /\ \E hd \in inflight : hd.h = "focusNone" /\ hd \notin inflight'

BackgroundPendingArmed(t) ==
  t \in DOMAIN pendingStarts' /\ pendingStarts'[t].isBackground

\* C24: when the handler of a real loss of browser focus runs while a tab is
\* actively tracked (tracker neither paused nor idle, the tab's URL trackable
\* and not blocked), active tracking ends, and a background confirmation is
\* armed for that tab exactly if it is in the visible, audible or
\* video-playing set
C24_FocusLossMovesToBackground ==
  [][(/\ FocusLossHandled
      /\ activeTab # <<>>
      /\ ~isPaused /\ ~isIdle
      /\ isTrackableUrl(activeTab[1].url)
      /\ ~isDomainBlocked(extractDomain(activeTab[1].url), settings.blocklist))
       => /\ activeTab' = <<>>
          /\ HasSignal(activeTab[1].tabId)
               <=> BackgroundPendingArmed(activeTab[1].tabId)]_vars

\* the popup takes the focus, or a focus handler completes while it has it
PopupFocusStep ==
  \/ hostFocus # "popup" /\ hostFocus' = "popup"
  \/ /\ hostFocus = "popup"
     /\ \E hd \in inflight :
          hd.h \in {"focusNone", "focusPopup"} /\ hd \notin inflight'

\* C25: a focus change to the extension's own popup, reported as the popup's
\* window id or as WINDOW_ID_NONE while the popup is focused, leaves the
\* active TabRecord, the background set and the pending map unchanged
C25_PopupFocusKeepsTracking ==
  [][PopupFocusStep => UNCHANGED <<activeTab, backgroundTabs, pendingStarts>>]_vars

C25_Witness ==
  /\ hostFocus = "popup"
  /\ inflight = {}
  /\ events = 0
  /\ activeTab # <<>>
  /\ pendingStarts # EmptyMap

\* a signal handler removed tab t, which is still open, from a signal set
SignalLost(t) ==
  /\ t \in hostTabs'
  /\ \/ t \in visibleTabs \ visibleTabs'
     \/ t \in audibleTabs \ audibleTabs'
     \/ t \in videoPlayingTabs \ videoPlayingTabs'

NoBackgroundLeft(t) ==
  /\ t \notin DOMAIN backgroundTabs'
  /\ ~(t \in DOMAIN pendingStarts' /\ pendingStarts'[t].isBackground)
  /\ \A tm \in timers' : ~(tm.tabId = t /\ tm.isBackground)

BackgroundKept(t) ==
  /\ t \in DOMAIN backgroundTabs
       => t \in DOMAIN backgroundTabs' /\ backgroundTabs'[t] = backgroundTabs[t]
  /\ (t \in DOMAIN pendingStarts /\ pendingStarts[t].isBackground)
       => /\ t \in DOMAIN pendingStarts'
          /\ pendingStarts'[t] = pendingStarts[t]
          /\ \E tm \in timers' : tm.id = pendingStarts[t].timeoutId

\* C26: the handler of a signal-loss event that leaves the tab in none of
\* the visible, audible and video-playing sets ends the tab's background
\* tracking and cancels its pending background confirmation and timer; when
\* the tab is still in one of the sets its background record and its pending
\* background confirmation stay as they were
C26_SignalLossEndsBackground ==
  [][\A t \in Tabs :
       SignalLost(t) =>
         IF t \in visibleTabs' \/ t \in audibleTabs' \/ t \in videoPlayingTabs'
         THEN BackgroundKept(t)
         ELSE NoBackgroundLeft(t)]_vars

\* the last signal of tab 2 was lost and its pending confirmation cancelled
C26_Witness ==
  /\ events = 0
  /\ inflight = {}
  /\ hostTabs = {1, 2}
  /\ activeTab # <<>>
  /\ ~isPaused /\ ~isIdle
  /\ visibleTabs = {} /\ audibleTabs = {} /\ videoPlayingTabs = {}
  /\ pendingStarts = EmptyMap
  /\ backgroundTabs = EmptyMap

\* tab 2 lost its visibility, stays audible and stays tracked
C26_StillTracked ==
  /\ events = 0
  /\ visibleTabs = {}
  /\ audibleTabs = {2}
  /\ 2 \in DOMAIN pendingStarts \/ 2 \in DOMAIN backgroundTabs

\* tabs.onUpdated reports a new URL for the actively tracked tab
ActiveUrlChanges ==
  /\ activeTab # <<>>
  /\ activeTab[1].tabId \in hostTabs'
  /\ hostUrl'[activeTab[1].tabId] # hostUrl[activeTab[1].tabId]

NewActiveUrl == hostUrl'[activeTab[1].tabId]

\* C27: when the active tab's URL changes to a trackable URL whose domain is
\* not blocked, then if the domain differs from the active record's the
\* record is ended and an active confirmation for the new domain is armed,
\* and if the domain is the same only the record's url field changes: the
\* pending map, the timers and the aggregation window stay as they were
C27_ActiveUrlChange ==
  [][(/\ ActiveUrlChanges
      /\ isTrackableUrl(NewActiveUrl)
      /\ ~isDomainBlocked(extractDomain(NewActiveUrl), settings.blocklist))
       => IF extractDomain(NewActiveUrl) # activeTab[1].domain
          THEN /\ activeTab' = <<>>
               /\ activeTab[1].tabId \in DOMAIN pendingStarts'
               /\ ~pendingStarts'[activeTab[1].tabId].isBackground
               /\ pendingStarts'[activeTab[1].tabId].domain
                    = extractDomain(NewActiveUrl)
          ELSE /\ activeTab' = <<[activeTab[1] EXCEPT !.url = NewActiveUrl]>>
               /\ UNCHANGED <<pendingStarts, timers, activityBuffer,
                              backgroundTabs>>]_vars

\* the step arms a background confirmation for tab t
ArmsBackgroundPending(t) ==
  /\ BackgroundPendingArmed(t)
  /\ t \notin DOMAIN pendingStarts \/ pendingStarts[t] # pendingStarts'[t]

\* what maybeStartBackgroundTracking requires, in the state it leaves
BackgroundArmable(t) ==
  /\ ~isPaused' /\ ~isIdle'
  /\ ~(activeTab' # <<>> /\ activeTab'[1].tabId = t)
  /\ t \notin DOMAIN backgroundTabs'
  /\ t \in visibleTabs' \/ t \in audibleTabs' \/ t \in videoPlayingTabs'

\* C28: a background confirmation is armed for a tab only when the tracker
\* is neither paused nor idle, the tab is neither the tracker's active tab
\* nor background-tracked, the URL armed is trackable and not blocked and
\* the tab is in one of the three signal sets; and when the handler of a
\* signal gain resumes for an open tab with all of these true, a background
\* confirmation is armed for the tab
C28_BackgroundPendingGate ==
  [][/\ \A t \in Tabs :
          ArmsBackgroundPending(t)
            => /\ BackgroundArmable(t)
               /\ isTrackableUrl(pendingStarts'[t].url)
               /\ ~isDomainBlocked(pendingStarts'[t].domain, settings'.blocklist)
     /\ \A hd \in inflight :
          (/\ hd.h = "signal"
           /\ hd \notin inflight'
           /\ hd.tabId \in hostTabs
           /\ BackgroundArmable(hd.tabId)
           /\ TrackableTab(hd.tabId))
            => /\ BackgroundPendingArmed(hd.tabId)
               /\ pendingStarts'[hd.tabId].scheduledTime = now
               /\ pendingStarts'[hd.tabId].url = hostUrl[hd.tabId]
               /\ \E tm \in timers' :
                    /\ tm.id = pendingStarts'[hd.tabId].timeoutId
                    /\ tm.due = now + DEBOUNCE_THRESHOLD_MS]_vars

\* a tab that gained a signal while tab 1 was active has a background
\* confirmation armed for it by the handler of that event
C28_Witness ==
  /\ events = 0
  /\ inflight = {}
  /\ activeTab # <<>>
  /\ \E t \in audibleTabs :
       /\ hostUrl[t] = UrlB1
       /\ t \in DOMAIN pendingStarts
       /\ pendingStarts[t].isBackground
       /\ pendingStarts[t].scheduledTime = now
       /\ now > 299000

\* the timer of an active confirmation fires: confirmActiveStart runs
ActiveConfirmationFires ==
  \E tm \in timers \ timers' :
    /\ ~tm.isBackground
    /\ now >= tm.due
    /\ activeTab' # <<>>
    /\ activeTab'[1].tabId = tm.tabId
    /\ activeTab'[1].startTime = now
    /\ tm.tabId \notin DOMAIN pendingStarts'

\* C29: when an active confirmation fires no TabRecord is active any more:
\* the previously active record was ended before the new one is installed,
\* so that no active record is replaced without its end being recorded
C29_ConfirmEndsPreviousActive ==
  [][ActiveConfirmationFires => activeTab = <<>>]_vars

\* the tracker holds nothing for tab t
NothingHeldFor(t) ==
  /\ t \notin DOMAIN pendingStarts
  /\ \A tm \in timers : tm.tabId # t
  /\ ~(activeTab # <<>> /\ activeTab[1].tabId = t)
  /\ t \notin DOMAIN backgroundTabs
  /\ t \notin visibleTabs
  /\ t \notin audibleTabs
  /\ t \notin videoPlayingTabs

\* C30: once handleTabRemoved has run for a tab, the tab has no pending
\* confirmation and no live debounce timer (so no confirmation can fire for
\* it), is neither the active nor a background tab and is in none of the
\* visible, audible and video-playing sets
C30_RemovedTabLeavesNothing == \A t \in Tabs \ hostTabs : NothingHeldFor(t)

\* tab 2 was closed while it was visible and its background confirmation,
\* armed at 299000 and due at 304000, was pending
C30_Witness ==
  /\ 2 \notin hostTabs
  /\ events = 0
  /\ now < 299000 + DEBOUNCE_THRESHOLD_MS
  /\ hostFocus = "normal"
  /\ ~isIdle
  /\ activeTab # <<>>
  /\ NothingHeldFor(2)

\* C39: once the handlers have returned, a TabRecord, active or
\* background, of a tab that is still open carries the domain of the URL the
\* tab shows
C39_RecordDomainIsTabDomain ==
  inflight = {} =>
    /\ (activeTab # <<>> /\ activeTab[1].tabId \in hostTabs)
         => activeTab[1].domain = extractDomain(hostUrl[activeTab[1].tabId])
    /\ \A t \in DOMAIN backgroundTabs :
         t \in hostTabs
           => backgroundTabs[t].domain = extractDomain(hostUrl[t])

\* the step is a run of the ticker's callback
TickRuns == lastTickAt' # lastTickAt

\* the seconds the step adds to the buckets of the buffer
AddedByTick ==
  TotalSeconds(activityBuffer'.domains)
    - (IF activityBuffer'.windowStart = activityBuffer.windowStart
       THEN TotalSeconds(activityBuffer.domains) ELSE 0)

\* C31: a tick that runs while the tracker is idle or paused leaves the
\* buffer as it is, and the first tick after tracking resumed attributes to
\* no record more than the time that has passed since the resumption
C31_NoIdleTimeAttributed ==
  [][/\ (TickRuns /\ (isPaused \/ isIdle))
          => activityBuffer' = activityBuffer
     /\ (TickRuns /\ ~(isPaused \/ isIdle) /\ resumedAt # <<>>
           /\ AddedByTick > 0)
          => onTickElapsed(Tracker) * 1000 <= now - resumedAt[1]]_vars

\* a record is being tracked, so that a tick which attributes has a bucket
\* to attribute to
SomethingTracked ==
  \/ activeTab # <<>> /\ activeTab[1].isTracking
  \/ \E t \in DOMAIN backgroundTabs : backgroundTabs[t].isTracking

\* the ticker's callback runs, past its early return, while the buffer still
\* holds a window whose end the clock has passed
TickOnFinalWindow ==
  /\ TickRuns
  /\ ~(isPaused \/ isIdle)
  /\ onTickElapsed(Tracker) > 0
  /\ SomethingTracked
  /\ activityBuffer.windowStart < roundToWindowBoundary(now)

\* C35: a tick that arrives after the boundary was crossed and before the
\* next heartbeat read adds its seconds to the window that is already final
C35_FinalWindowStillReceives ==
  [][TickOnFinalWindow
       => /\ activityBuffer'.windowStart = activityBuffer.windowStart
          /\ TotalSeconds(activityBuffer'.domains)
               > TotalSeconds(activityBuffer.domains)]_vars

\* what the ticker does instead: the buffer it leaves never holds a window
\* that is already final
TickLeavesCurrentWindow ==
  [][TickOnFinalWindow
       => activityBuffer'.windowStart = roundToWindowBoundary(now)]_vars

\* the seconds of the buffer that the snapshot read by cycle c does not hold
NotInSnapshot(c) ==
  IF activityBuffer.windowStart = procs[c].window[1].windowStart
  THEN TotalSeconds(activityBuffer.domains) - WindowTotal(procs[c].window[1])
  ELSE TotalSeconds(activityBuffer.domains)

\* C36: the clearCurrentBuffer that follows the delivery of a final window
\* leaves in the buffer the seconds the ticks attributed after the cycle
\* read its snapshot
C36_ClearKeepsLaterSeconds ==
  [][\A c \in 1..MaxCycles :
       (/\ c \in DOMAIN procs
        /\ c \in DOMAIN procs'
        /\ procs[c].pc = "statsWrite"
        /\ procs'[c].pc = "done")
         => TotalSeconds(activityBuffer'.domains) = NotInSnapshot(c)]_vars

\* the call c takes its next step
Moves(c) ==
  /\ c \in DOMAIN procs
  /\ c \notin DOMAIN procs' \/ procs'[c] # procs[c]

\* the refresh endpoint answers the call c with 2xx in this step
RefreshSucceeds(c) ==
  /\ Moves(c)
  /\ procs[c].pc = "refreshFetch"
  /\ tokens' # <<>>
  /\ tokens' # tokens

\* the refreshToken call c, answered with 2xx, returns true in this step
RefreshCompletes(c) ==
  \/ RefreshSucceeds(c)
       /\ (c \notin DOMAIN procs' \/ procs'[c].pc # "refreshSave")
  \/ /\ Moves(c)
     /\ procs[c].pc = "refreshSave"

\* the refresh endpoint fails the call made by the refresh timer
TimerRefreshFails ==
  /\ Moves(TimerProc)
  /\ procs[TimerProc].pc = "refreshFetch"
  /\ ~RefreshSucceeds(TimerProc)

\* the logout forced by the refresh timer's failed call completes
TimerLogoutCompletes ==
  /\ Moves(TimerProc)
  /\ procs[TimerProc].pc = "logoutClear"

\* C33: a successful refresh installs a new access token with a new expiry
\* and the refresh token it was called with, which is the one held before,
\* and its return leaves a refresh timer scheduled for the new expiry; a
\* failed refresh of the refresh timer runs logout, and when that logout
\* completes the tracker is unauthenticated and paused
C33_RefreshOutcomes ==
  [][/\ \A c \in TimerProc..MaxCycles :
          /\ RefreshSucceeds(c)
               => /\ tokens'[1].accessToken = issued'
                  /\ tokens # <<>> =>
                       /\ tokens'[1].accessToken # tokens[1].accessToken
                       /\ tokens'[1].refreshToken = tokens[1].refreshToken
                  /\ tokens'[1].refreshToken = procs[c].tokenToUse
                  /\ \E e \in ServerExpiresIn :
                       tokens'[1].expiresAt = now + e * 1000
          /\ RefreshCompletes(c)
               => /\ refreshTimer' # <<>>
                  /\ tokens' # <<>>
                  /\ refreshTimer'[1] =
                       tokens'[1].expiresAt - TOKEN_REFRESH_BUFFER_MS
     /\ TimerRefreshFails
          => /\ TimerProc \in DOMAIN procs'
             /\ procs'[TimerProc].pc \in {"logoutFetch", "logoutClear"}
             /\ refreshTimer' = <<>>
     /\ TimerLogoutCompletes
          => /\ tokens' = <<>>
             /\ isPaused'
             /\ activeTab' = <<>>]_vars

\* a logout() call reaches its end in this step
LogoutCompletes(c) ==
  /\ Moves(c)
  /\ procs[c].pc = "logoutClear"

\* the refreshToken call c returns in this step, true or false
RefreshReturns(c) ==
  \/ RefreshCompletes(c)
  \/ c # LogoutProc /\ LogoutCompletes(c)

\* C34: every logout that completes emits an auth-state-changed
\* notification, and so does every refresh between its start and its
\* return, whether it succeeded or failed
C34_EveryOutcomeNotified ==
  [][\A c \in LogoutProc..MaxCycles :
       /\ LogoutCompletes(c) => authNotices' = authNotices + 1
       /\ RefreshReturns(c) => authNotices' > procs[c].noticesAt]_vars

\* C32: no pending confirmation, no TabRecord and no DomainBucket carries
\* the empty domain
C32_NoEmptyDomain ==
  /\ \A t \in DOMAIN pendingStarts : pendingStarts[t].domain # <<>>
  /\ activeTab # <<>> => activeTab[1].domain # <<>>
  /\ \A t \in DOMAIN backgroundTabs : backgroundTabs[t].domain # <<>>
  /\ <<>> \notin DOMAIN activityBuffer.domains

\* the time the daily statistics hold for the domains ds
RECURSIVE StatsTotal(_, _)
StatsTotal(stats, ds) ==
  IF ds = {} THEN 0
  ELSE LET d == CHOOSE x \in ds : TRUE
       IN stats[d].activeTime + stats[d].backgroundTime
            + StatsTotal(stats, ds \ {d})

\* the seconds the ticks attributed to the windows ws
RECURSIVE LedgerTotal(_, _)
LedgerTotal(l, ws) ==
  IF ws = {} THEN 0
  ELSE LET w == CHOOSE x \in ws : TRUE
       IN l[w] + LedgerTotal(l, ws \ {w})

\* C37: no final window is added to the daily statistics twice: the
\* statistics never hold more time than the ticks attributed, each window
\* holding no more than the ticks attributed to it
C37_WindowFoldedOnce ==
  StatsTotal(dailyStats, DOMAIN dailyStats)
    <= 1000 * LedgerTotal(ledger, DOMAIN ledger)

\* every run of initialize() that was started has returned
RunsReturned == \A r \in DOMAIN initRuns : initRuns[r] = "done"

\* C38: when the runs of initialize() have returned, one set of tracker
\* listeners and one auth-change callback are registered and one tick timer
\* is live
C38_OneRegistrationEach ==
  RunsReturned => listeners = 1 /\ authCallbacks = 1 /\ tickIntervals = 1

\* C40: while a tab is the confirmed active tab and the tracker is neither
\* idle nor paused, the seconds the ticks have attributed by the end of a
\* tick differ from the time since the confirmation by less than one tick
\* interval
C40_AttributedTracksWallClock ==
  (/\ activeTab # <<>>
   /\ activeTab[1].isTracking
   /\ ~isPaused
   /\ ~isIdle
   /\ lastTickAt = now)
    => LET wall == now - activeTab[1].startTime
           attributed == 1000 * LedgerTotal(ledger, DOMAIN ledger)
       IN /\ wall - attributed < TICK_INTERVAL_MS
          /\ attributed - wall < TICK_INTERVAL_MS

====
